---- MODULE Spec2Model ----
(***************************************************************************)
(* Rapid Photo Downloader: the rename-and-move daemon                      *)
(* (src/rapid/renameandmovefile.py).                                       *)
(*                                                                         *)
(* Strings are sequences of one-character strings, so that os.path.join,   *)
(* os.path.splitext, number formatting and the "_N" identifier are         *)
(* computed, not assumed.                                                  *)
(***************************************************************************)
EXTENDS Integers, Sequences, FiniteSets, TLC

(***************************************************************************)
(* Bounds of the model.                                                    *)
(***************************************************************************)
\* file requests the main process sends over the daemon's lifetime
MaxFiles == 3
\* download sessions (download_started .. download_completed)
MaxSessions == 2
\* messages waiting in the daemon's receiver
MaxQueue == 1

(***************************************************************************)
(* Python values.                                                          *)
(***************************************************************************)
\* Python's None where the other values are integers (sequence numbers are >= 0)
None == -1

\* x in list
InList(x, list) == \E i \in 1..Len(list) : list[i] = x

(***************************************************************************)
(* Strings and paths.                                                      *)
(***************************************************************************)
SEP == "/"
DOT == "."

Digit == <<"0", "1", "2", "3", "4", "5", "6", "7", "8", "9">>

\* '%s' % n for a non-negative integer
RECURSIVE Str(_)
Str(n) == IF n < 10 THEN <<Digit[n + 1]>>
          ELSE Str(n \div 10) \o <<Digit[(n % 10) + 1]>>

\* index of the last occurrence of c in s, 0 if none
RECURSIVE LastIndex(_, _)
LastIndex(s, c) == IF s = <<>> THEN 0
                   ELSE IF s[Len(s)] = c THEN Len(s)
                   ELSE LastIndex(SubSeq(s, 1, Len(s) - 1), c)

\* os.path.splitext (posixpath / genericpath._splitext): the extension starts
\* at the last dot after the last separator, leading dots of the file name
\* are not an extension
RECURSIVE OnlyDots(_, _, _)
OnlyDots(p, from, to) == IF from > to THEN TRUE
                         ELSE p[from] = DOT /\ OnlyDots(p, from + 1, to)

splitext(p) ==
    LET sepIndex == LastIndex(p, SEP)
        dotIndex == LastIndex(p, DOT)
    IN  IF dotIndex > sepIndex /\ ~OnlyDots(p, sepIndex + 1, dotIndex)
        THEN <<SubSeq(p, 1, dotIndex - 1), SubSeq(p, dotIndex, Len(p))>>
        ELSE <<p, <<>> >>

\* os.path.join(a, b) (posixpath)
join(a, b) == IF b # <<>> /\ b[1] = SEP THEN b
              ELSE IF a = <<>> \/ a[Len(a)] = SEP THEN a \o b
              ELSE a \o <<SEP>> \o b

(***************************************************************************)
(* SyncRawJpeg: the RAW + JPEG pairing tracker.                            *)
(* photos maps a base name to [exts, dt, ss, seq].                         *)
(***************************************************************************)
SyncRawJpeg_init == <<>>

\* add_download as it would be if a later download replaced the entry
add_download_overwriting(photos, name, extension, date_time, sub_seconds, seq) ==
    (name :> [exts |-> <<extension>>, dt |-> date_time,
              ss |-> sub_seconds, seq |-> seq]) @@ photos

\* SyncRawJpeg.add_download
add_download(photos, name, extension, date_time, sub_seconds, seq) ==
    IF name \notin DOMAIN photos
    THEN photos @@ (name :> [exts |-> <<extension>>, dt |-> date_time,
                             ss |-> sub_seconds, seq |-> seq])
    ELSE IF ~InList(extension, photos[name].exts)
         THEN [photos EXCEPT ![name].exts = Append(@, extension)]
         ELSE photos

\* matching_pair as it would be if the extension were looked at before the
\* time
matching_pair_ext_first(photos, name, extension, date_time, sub_seconds) ==
    IF name \in DOMAIN photos
    THEN IF InList(extension, photos[name].exts)
         THEN [status |-> "error_already_downloaded",
               sequence_number |-> photos[name].seq]
         ELSE IF photos[name].dt = date_time /\ photos[name].ss = sub_seconds
              THEN [status |-> "matching_pair",
                    sequence_number |-> photos[name].seq]
              ELSE [status |-> "error_datetime_mismatch",
                    sequence_number |-> None]
    ELSE [status |-> "no_match", sequence_number |-> None]

\* SyncRawJpeg.matching_pair
matching_pair(photos, name, extension, date_time, sub_seconds) ==
    IF name \in DOMAIN photos
    THEN IF photos[name].dt = date_time /\ photos[name].ss = sub_seconds
         THEN IF InList(extension, photos[name].exts)
              THEN [status |-> "error_already_downloaded",
                    sequence_number |-> photos[name].seq]
              ELSE [status |-> "matching_pair",
                    sequence_number |-> photos[name].seq]
         ELSE [status |-> "error_datetime_mismatch",
               sequence_number |-> None]
    ELSE [status |-> "no_match", sequence_number |-> None]

(***************************************************************************)
(* generatename (gn): tokens, Sequences and the name generator.            *)
(* A token is [kind, text]; kind is one of "text", "separator",            *)
(* "filename", "extension", "camera_model" (metadata fields; the camera    *)
(* model can be absent), "downloads_today", "stored",                      *)
(* "session", "letter", "matched" (sequence fields), "job_code".           *)
(***************************************************************************)
Tok(kind) == [kind |-> kind, text |-> <<>>]
Text(literal) == [kind |-> "text", text |-> literal]

\* gn.Sequences(downloads_today_tracker, stored_sequence_no)
Sequences(stored_sequence_no) ==
    [session_sequence_no |-> 0, sequence_letter |-> 0,
     stored_sequence_no |-> stored_sequence_no, matched |-> None]

\* Sequences.set_matched_sequence_value
set_matched_sequence_value(sequences, value) ==
    [sequences EXCEPT !.matched = value]

\* Sequences.create_matched_sequences: the value a later counterpart reuses
create_matched_sequences(sequences) == sequences.session_sequence_no

\* Sequences.increment(uses_session_sequence_no, uses_sequence_letter)
increment(sequences, uses_session, uses_letter) ==
    [sequences EXCEPT
        !.session_sequence_no = IF uses_session THEN @ + 1 ELSE @,
        !.sequence_letter = IF uses_letter THEN @ + 1 ELSE @]

\* preferences.DownloadsTodayTracker: downloads_today is [date, count]
get_or_reset_downloads_today(tracker, now) ==
    IF tracker.date # now THEN [date |-> now, count |-> 0] ELSE tracker

increment_downloads_today(tracker) == [tracker EXCEPT !.count = @ + 1]

Letters == <<"A", "B", "C", "D", "E", "F", "G", "H", "I", "J", "K", "L", "M",
             "N", "O", "P", "Q", "R", "S", "T", "U", "V", "W", "X", "Y", "Z">>

\* the letter sequence A, B, ..., Z, AA, AB, ... of an index 0, 1, ...
RECURSIVE LetterStr(_)
LetterStr(i) == IF i < 26 THEN <<Letters[i + 1]>>
                ELSE LetterStr((i \div 26) - 1) \o <<Letters[(i % 26) + 1]>>

\* the value a "matched" token emits: the matched number if set, else the
\* session sequence number
MatchedValue(sequences) ==
    IF sequences.matched # None THEN sequences.matched
    ELSE sequences.session_sequence_no

\* the substring one token emits for a file
Part(tok, rpd_file, sequences, downloads_today) ==
    CASE tok.kind = "text" -> tok.text
      [] tok.kind = "separator" -> <<SEP>>
      [] tok.kind = "filename" -> splitext(rpd_file.name)[1]
      [] tok.kind = "extension" -> splitext(rpd_file.name)[2]
      [] tok.kind = "camera_model" -> rpd_file.camera_model
      [] tok.kind = "downloads_today" -> Str(downloads_today.count)
      [] tok.kind = "stored" -> Str(sequences.stored_sequence_no)
      [] tok.kind = "session" -> Str(sequences.session_sequence_no)
      [] tok.kind = "letter" -> LetterStr(sequences.sequence_letter)
      [] tok.kind = "matched" -> Str(MatchedValue(sequences))
      [] tok.kind = "job_code" -> rpd_file.job_code

\* the problem one token records for a file, <<>> if none
PartProblem(tok, rpd_file, sequences) ==
    CASE tok.kind = "matched" /\ sequences.matched = None -> <<"NO_MATCHED_SEQUENCE">>
      [] tok.kind = "camera_model" /\ rpd_file.camera_model = <<>>
            -> <<"MISSING_METADATA">>
      [] tok.kind = "job_code" /\ rpd_file.job_code = <<>> -> <<"MISSING_JOB_CODE">>
      [] OTHER -> <<>>

\* the ordered parts, one per token
Parts(tokens, rpd_file, sequences, downloads_today) ==
    [i \in 1..Len(tokens) |-> Part(tokens[i], rpd_file, sequences, downloads_today)]

RECURSIVE Concat(_)
Concat(parts) == IF parts = <<>> THEN <<>> ELSE Head(parts) \o Concat(Tail(parts))

RECURSIVE Problems(_, _, _)
Problems(tokens, rpd_file, sequences) ==
    IF tokens = <<>> THEN <<>>
    ELSE PartProblem(Head(tokens), rpd_file, sequences)
         \o Problems(Tail(tokens), rpd_file, sequences)

\* subfolder post-processing: consecutive separators collapse into one and
\* leading and trailing separators are stripped
RECURSIVE Collapse(_)
Collapse(s) == IF Len(s) < 2 THEN s
               ELSE IF s[1] = SEP /\ s[2] = SEP THEN Collapse(Tail(s))
               ELSE <<s[1]>> \o Collapse(Tail(s))

\* StripSep as it would be if only a leading separator were stripped
StripSepLeading(s) == IF s # <<>> /\ s[1] = SEP THEN Tail(s) ELSE s

StripSep(s) ==
    LET a == IF s # <<>> /\ s[1] = SEP THEN Tail(s) ELSE s
    IN  IF a # <<>> /\ a[Len(a)] = SEP THEN SubSeq(a, 1, Len(a) - 1) ELSE a

\* gn.PhotoName / gn.VideoName .generate_name
NameGenerate(tokens, rpd_file, sequences, downloads_today) ==
    Concat(Parts(tokens, rpd_file, sequences, downloads_today))

\* gn.PhotoSubfolder / gn.VideoSubfolder .generate_name
SubfolderGenerate(tokens, rpd_file, sequences, downloads_today) ==
    StripSep(Collapse(Concat(Parts(tokens, rpd_file, sequences, downloads_today))))

Uses(tokens, kind) == \E i \in 1..Len(tokens) : tokens[i].kind = kind

\* Preferences.any_pref_uses_session_sequence_no and its siblings: over every
\* token list of the preferences
AllPrefLists(prefs) == {prefs.photo_rename, prefs.video_rename,
                        prefs.photo_subfolder, prefs.video_subfolder}
any_pref_uses_session_sequence_no(prefs) ==
    \E l \in AllPrefLists(prefs) : Uses(l, "session")
any_pref_uses_sequence_letter_value(prefs) ==
    \E l \in AllPrefLists(prefs) : Uses(l, "letter")
any_pref_uses_stored_sequence_no(prefs) ==
    \E l \in AllPrefLists(prefs) : Uses(l, "stored")

(***************************************************************************)
(* RenameMoveFileWorker.  A method is an operator over the worker's state  *)
(* `self` = [prefs, photos, sequences, downloads_today, duplicate_files,   *)
(* disk, dirs, other_writer] and the RPDFile record; it returns            *)
(* [self, rpd, ret].  disk is the set of files existing in the destination *)
(* folders, dirs the set of existing directories; other_writer tells that  *)
(* another process creates the destination of the primary file between the *)
(* existence check and os.rename.                                          *)
(***************************************************************************)
Out(self, rpd, ret) == [self |-> self, rpd |-> rpd, ret |-> ret]

add_problem(rpd, problem) == [rpd EXCEPT !.problems = Append(@, problem)]

\* the sidecar files a request declares: the video comes with a THM
\* thumbnail, an audio file and an XMP file, the RAW photo with an XMP file
TempFolder == <<SEP, "t">>
THM == <<".", "T", "H", "M">>
WAV == <<".", "W", "A", "V">>
XMP == <<".", "x", "m", "p">>
Declares(f, kind) ==
    \/ f.file_type = "video" /\ kind \in {"thm", "audio", "xmp"}
    \/ f.file_type = "photo" /\ kind = "xmp"
       /\ splitext(f.name)[2] = <<".", "C", "R", "2">>
TempSidecar(f, kind, extension) ==
    IF Declares(f, kind)
    THEN join(TempFolder, splitext(f.name)[1] \o extension) ELSE <<>>

\* the RPDFile a file request carries; thm, audio, xmp tell what became of
\* the sidecar: "none" declared, "present" at its temp path, "renamed", or
\* "failed" when its os.rename raised
RPDFile(f) ==
    [name |-> f.name, file_type |-> f.file_type, dt |-> f.dt, ss |-> f.ss,
     job_code |-> <<>>, metadata_loaded |-> FALSE,
     status |-> "download_pending", problems |-> <<>>,
     download_folder |-> <<>>, subfolder_pref_list |-> <<>>,
     name_pref_list |-> <<>>, download_subfolder |-> <<>>,
     download_name |-> <<>>, download_path |-> <<>>,
     download_full_file_name |-> <<>>, download_full_base_name |-> <<>>,
     temp |-> "present", error_area |-> "",
     named_session |-> None, named_matched |-> None, named_stored |-> None,
     tracked |-> FALSE, advanced |-> FALSE, generated |-> FALSE,
     temp_thm_full_name |-> TempSidecar(f, "thm", THM),
     temp_audio_full_name |-> TempSidecar(f, "audio", WAV),
     temp_xmp_full_name |-> TempSidecar(f, "xmp", XMP),
     thm_extension |-> <<>>, audio_extension |-> <<>>, xmp_extension |-> XMP,
     download_thm_full_name |-> <<>>, download_audio_full_name |-> <<>>,
     download_xmp_full_name |-> <<>>,
     thm |-> IF Declares(f, "thm") THEN "present" ELSE "none",
     audio |-> IF Declares(f, "audio") THEN "present" ELSE "none",
     xmp |-> IF Declares(f, "xmp") THEN "present" ELSE "none",
     replaced |-> FALSE]

\* load_metadata(rpd_file, et_process); ok is the metadata service's answer
load_metadata(rpd, ok) ==
    IF ~rpd.metadata_loaded
    THEN IF ~ok THEN [rpd |-> add_problem(rpd, "CANNOT_DOWNLOAD_BAD_METADATA"),
                      ret |-> FALSE]
         ELSE [rpd |-> [rpd EXCEPT !.metadata_loaded = TRUE], ret |-> TRUE]
    ELSE [rpd |-> rpd, ret |-> TRUE]

notify_file_already_exists(rpd, identifier) ==
    IF identifier = <<>>
    THEN [add_problem(rpd, "FILE_ALREADY_EXISTS_NO_DOWNLOAD")
            EXCEPT !.status = "download_failed"]
    ELSE [add_problem(rpd, "UNIQUE_IDENTIFIER_ADDED")
            EXCEPT !.status = "downloaded_with_warning"]

\* notify_download_failure_file_error as it would be if it set the status
\* without adding a problem
notify_download_failure_file_error_silent(rpd) ==
    [rpd EXCEPT !.status = "download_failed"]

notify_download_failure_file_error(rpd) ==
    [add_problem(rpd, "DOWNLOAD_COPYING_ERROR") EXCEPT !.status = "download_failed"]

\* download_file_exists as it would be if an identifier were added whatever
\* the conflict policy
download_file_exists_adding_identifier(self, rpd) ==
    Out(self, rpd, TRUE)

download_file_exists(self, rpd) ==
    IF self.prefs.conflict_resolution = "add_identifier"
    THEN Out(self, rpd, TRUE)
    ELSE Out(self, notify_file_already_exists(rpd, <<>>), FALSE)

same_name_different_exif(rpd) ==
    [add_problem(rpd, "SAME_FILE_DIFFERENT_EXIF")
        EXCEPT !.status = "downloaded_with_warning"]

\* check_for_fatal_name_generation_errors as it would be if no generated
\* name were fatal
check_for_fatal_name_generation_errors_passing(rpd) ==
    [rpd |-> rpd, ret |-> TRUE]

check_for_fatal_name_generation_errors(rpd) ==
    IF rpd.download_subfolder = <<>> \/ rpd.download_name = <<>>
    THEN LET area == IF rpd.download_subfolder = <<>> /\ rpd.download_name = <<>>
                     THEN "subfolder and filename"
                     ELSE IF rpd.download_name = <<>> THEN "filename"
                     ELSE "subfolder"
         IN  [rpd |-> [add_problem(rpd, "ERROR_IN_NAME_GENERATION")
                         EXCEPT !.status = "download_failed",
                                !.error_area = area],
              ret |-> FALSE]
    ELSE [rpd |-> rpd, ret |-> TRUE]

Get(dict, key) == IF key \in DOMAIN dict THEN dict[key] ELSE 0
Put(dict, key, value) == IF key \in DOMAIN dict THEN [dict EXCEPT ![key] = value]
                         ELSE dict @@ (key :> value)

\* the counter as it would be if it advanced by 2
next_identifier_skipping(duplicate_files, full_name) ==
    Get(duplicate_files, full_name) + 2

\* self.duplicate_files.get(full_name, 0) + 1
next_identifier(duplicate_files, full_name) ==
    Get(duplicate_files, full_name) + 1

\* the while loop of add_unique_identifier; rename_error: os.rename raises an
\* OSError other than EEXIST
RECURSIVE unique_identifier_loop(_, _, _, _, _)
unique_identifier_loop(self, rpd, name, full_name, rename_error) ==
    LET count == next_identifier(self.duplicate_files, full_name)
        self1 == [self EXCEPT !.duplicate_files = Put(@, full_name, count)]
        identifier == <<"_">> \o Str(count)
        download_name == name[1] \o identifier \o name[2]
        rpd1 == [rpd EXCEPT
                   !.download_name = download_name,
                   !.download_full_file_name = join(rpd.download_path, download_name)]
    IN  IF rpd1.download_full_file_name \in self1.disk
        THEN unique_identifier_loop(self1, rpd1, name, full_name, rename_error)
        ELSE IF rename_error \/ rpd1.download_path \notin self1.dirs
        THEN Out(self1, notify_download_failure_file_error(rpd1), FALSE)
        ELSE Out([self1 EXCEPT !.disk = @ \cup {rpd1.download_full_file_name}],
                 notify_file_already_exists(
                     [rpd1 EXCEPT !.temp = "renamed",
                                  !.replaced = self.other_writer],
                     identifier),
                 TRUE)

add_unique_identifier(self, rpd, rename_error) ==
    unique_identifier_loop(self, rpd, splitext(rpd.download_name),
                           rpd.download_full_file_name, rename_error)

\* SyncRawJpegResult
SyncRawJpegResult(sequence_to_use, failed, photo) ==
    [sequence_to_use |-> sequence_to_use, failed |-> failed,
     photo_name |-> photo[1], photo_ext |-> photo[2]]

\* sync_raw_jpg once the tracker has answered: match is the SyncRawJpegMatch
sync_raw_jpg_matched(self, rpd, photo, match) ==
    IF match.status = "error_already_downloaded"
    THEN IF self.prefs.conflict_resolution # "add_identifier"
         THEN Out(self,
                  [add_problem(rpd, "FILE_ALREADY_DOWNLOADED")
                     EXCEPT !.status = "download_failed"],
                  SyncRawJpegResult(match.sequence_number, TRUE, photo))
         ELSE Out(self, rpd,
                  SyncRawJpegResult(match.sequence_number, FALSE, photo))
    ELSE Out([self EXCEPT !.sequences =
                 set_matched_sequence_value(@, match.sequence_number)],
             IF match.status = "error_datetime_mismatch"
             THEN same_name_different_exif(rpd)
             ELSE rpd,
             SyncRawJpegResult(match.sequence_number, FALSE, photo))

\* sync_raw_jpg once load_metadata has answered
sync_raw_jpg_loaded(self, loaded, photo) ==
    IF ~loaded.ret
    THEN Out(self,
             check_for_fatal_name_generation_errors(
                 [loaded.rpd EXCEPT !.status = "download_failed"]).rpd,
             SyncRawJpegResult(None, TRUE, photo))
    ELSE sync_raw_jpg_matched(self, loaded.rpd, photo,
                              matching_pair(self.photos, photo[1], photo[2],
                                            loaded.rpd.dt, loaded.rpd.ss))

\* sync_raw_jpg; ret = SyncRawJpegResult
sync_raw_jpg(self, rpd, metadata_ok) ==
    sync_raw_jpg_loaded(self, load_metadata(rpd, metadata_ok),
                        splitext(rpd.name))

\* prepare_rpd_file
prepare_rpd_file(self, rpd) ==
    IF rpd.file_type = "photo"
    THEN [rpd EXCEPT !.download_folder = self.prefs.photo_download_folder,
                     !.subfolder_pref_list = self.prefs.photo_subfolder,
                     !.name_pref_list = self.prefs.photo_rename]
    ELSE [rpd EXCEPT !.download_folder = self.prefs.video_download_folder,
                     !.subfolder_pref_list = self.prefs.video_subfolder,
                     !.name_pref_list = self.prefs.video_rename]

\* _generate_name for the subfolder, once load_metadata has answered
subfolder_generated(self, loaded) ==
    IF loaded.ret
    THEN [loaded.rpd EXCEPT
            !.generated = TRUE,
            !.download_subfolder =
                SubfolderGenerate(loaded.rpd.subfolder_pref_list, loaded.rpd,
                                  self.sequences, self.downloads_today),
            !.problems = @ \o Problems(loaded.rpd.subfolder_pref_list,
                                       loaded.rpd, self.sequences)]
    ELSE [loaded.rpd EXCEPT !.generated = TRUE, !.download_subfolder = <<>>]

\* generate_subfolder
generate_subfolder(self, rpd, metadata_ok) ==
    subfolder_generated(self, load_metadata(rpd, metadata_ok))

\* generate_name; the metadata is loaded when the subfolder was generated.
\* named_session, named_matched, named_stored keep the sequence values the
\* name was generated from
generate_name(self, rpd) ==
    [rpd EXCEPT
       !.download_name = NameGenerate(rpd.name_pref_list, rpd, self.sequences,
                                      self.downloads_today),
       !.problems = @ \o Problems(rpd.name_pref_list, rpd, self.sequences),
       !.named_session = IF Uses(rpd.name_pref_list, "session")
                         THEN self.sequences.session_sequence_no ELSE None,
       !.named_matched = IF Uses(rpd.name_pref_list, "matched")
                         THEN MatchedValue(self.sequences) ELSE None,
       !.named_stored = IF Uses(rpd.name_pref_list, "stored")
                        THEN self.sequences.stored_sequence_no ELSE None]

\* rpd_file.has_problem() after generate_name
warn_of_problems(rpd) ==
    IF rpd.problems # <<>>
    THEN [rpd EXCEPT !.status = "downloaded_with_warning"] ELSE rpd

\* generate_names once generate_subfolder is done
names_generated(self, rpd) ==
    IF rpd.download_subfolder # <<>>
    THEN check_for_fatal_name_generation_errors(
             warn_of_problems(generate_name(self, rpd)))
    ELSE check_for_fatal_name_generation_errors(rpd)

\* generate_names
generate_names(self, rpd, metadata_ok) ==
    names_generated(self, generate_subfolder(self, rpd, metadata_ok))

\* the try block of move_file as it would be if move_succeeded were set
\* whatever the rename did
try_rename_reporting_success(self, rpd, rename_error) ==
    LET full == rpd.download_full_file_name
        answer(move_succeeded, add_identifier) ==
            [move_succeeded |-> move_succeeded,
             add_unique_identifier |-> add_identifier]
    IN  IF full \in self.disk
        THEN Out(self, download_file_exists(self, rpd).rpd,
                 answer(TRUE, download_file_exists(self, rpd).ret))
        ELSE IF rename_error \/ rpd.download_path \notin self.dirs
        THEN Out(self, notify_download_failure_file_error(rpd),
                 answer(TRUE, FALSE))
        ELSE Out([self EXCEPT !.disk = @ \cup {full}],
                 [rpd EXCEPT !.temp = "renamed",
                             !.status = IF @ # "downloaded_with_warning"
                                        THEN "downloaded" ELSE @],
                 answer(TRUE, FALSE))

\* the try block of move_file as it would be if os.rename were called without
\* the existence check
try_rename_overwriting(self, rpd, rename_error) ==
    IF rename_error \/ rpd.download_path \notin self.dirs
    THEN Out(self, notify_download_failure_file_error(rpd),
             [move_succeeded |-> FALSE, add_unique_identifier |-> FALSE])
    ELSE Out([self EXCEPT !.disk = @ \cup {rpd.download_full_file_name}],
             [rpd EXCEPT !.temp = "renamed",
                         !.status = IF @ # "downloaded_with_warning"
                                    THEN "downloaded" ELSE @],
             [move_succeeded |-> TRUE, add_unique_identifier |-> FALSE])

\* the try block of move_file: the existence check and os.rename;
\* ret = [move_succeeded, add_unique_identifier].  When another writer
\* creates the destination after the check (self.other_writer), os.rename
\* replaces that file: rpd.replaced records it
try_rename(self, rpd, rename_error) ==
    LET full == rpd.download_full_file_name
        answer(move_succeeded, add_identifier) ==
            [move_succeeded |-> move_succeeded,
             add_unique_identifier |-> add_identifier]
    IN  IF full \in self.disk
        THEN Out(self, download_file_exists(self, rpd).rpd,
                 answer(FALSE, download_file_exists(self, rpd).ret))
        ELSE IF rename_error \/ rpd.download_path \notin self.dirs
        THEN Out(self, notify_download_failure_file_error(rpd),
                 answer(FALSE, FALSE))
        ELSE Out([self EXCEPT !.disk = @ \cup {full}],
                 [rpd EXCEPT !.temp = "renamed",
                             !.replaced = self.other_writer,
                             !.status = IF @ # "downloaded_with_warning"
                                        THEN "downloaded" ELSE @],
                 answer(TRUE, FALSE))

\* the end of move_file: the value add_unique_identifier returns is dropped,
\* move_succeeded stays as the try block left it
identifier_added(tried, identifier_rename_error) ==
    IF tried.ret.add_unique_identifier
    THEN Out(add_unique_identifier(tried.self, tried.rpd,
                                   identifier_rename_error).self,
             add_unique_identifier(tried.self, tried.rpd,
                                   identifier_rename_error).rpd,
             tried.ret.move_succeeded)
    ELSE Out(tried.self, tried.rpd, tried.ret.move_succeeded)

\* the paths move_file sets
destination(rpd) ==
    [rpd EXCEPT
       !.download_path = join(rpd.download_folder, rpd.download_subfolder),
       !.download_full_file_name =
           join(join(rpd.download_folder, rpd.download_subfolder),
                rpd.download_name),
       !.download_full_base_name =
           splitext(join(join(rpd.download_folder, rpd.download_subfolder),
                         rpd.download_name))[1]]

\* os.makedirs when the download path is no directory
makedirs(self, download_path, mkdir_error) ==
    IF download_path \notin self.dirs /\ ~mkdir_error
    THEN [self EXCEPT !.dirs = @ \cup {download_path}]
    ELSE self

\* move_file: mkdir_error, rename_error, identifier_rename_error are the
\* answers of os.makedirs and of the two os.rename calls
move_file(self, rpd, mkdir_error, rename_error, identifier_rename_error) ==
    identifier_added(
        try_rename(makedirs(self, destination(rpd).download_path, mkdir_error),
                   destination(rpd), rename_error),
        identifier_rename_error)

\* process_file after a successful move: the tracker records the file and
\* the sequences advance
after_move(synchronize_raw_jpg, sync_result, self, rpd) ==
    LET sequence == IF sync_result.sequence_to_use = None
                    THEN create_matched_sequences(self.sequences)
                    ELSE sync_result.sequence_to_use
        fresh == ~synchronize_raw_jpg \/ sync_result.sequence_to_use = None
        uses_sequence_session_no == any_pref_uses_session_sequence_no(self.prefs)
        uses_sequence_letter == any_pref_uses_sequence_letter_value(self.prefs)
    IN  Out([self EXCEPT
               !.photos = IF synchronize_raw_jpg
                          THEN add_download(@, sync_result.photo_name,
                                            sync_result.photo_ext, rpd.dt,
                                            rpd.ss, sequence)
                          ELSE @,
               !.sequences = IF fresh
                             THEN increment(@, uses_sequence_session_no,
                                            uses_sequence_letter)
                             ELSE @,
               !.prefs.stored_sequence_no =
                   IF fresh /\ any_pref_uses_stored_sequence_no(self.prefs)
                   THEN @ + 1 ELSE @,
               !.downloads_today = IF fresh THEN increment_downloads_today(@)
                                   ELSE @],
            [rpd EXCEPT !.tracked = synchronize_raw_jpg, !.advanced = fresh],
            TRUE)

\* _move_associate_file: os.rename without an existence check, every
\* exception caught; rename_error is the answer of os.rename
move_associate_file(self, extension, full_base_name, rename_error) ==
    [self |-> IF rename_error THEN self
              ELSE [self EXCEPT !.disk = @ \cup {full_base_name \o extension}],
     success |-> ~rename_error,
     download_full_name |-> full_base_name \o extension]

\* move_thm_file
move_thm_file(self, rpd, thm_error) ==
    LET ext == IF rpd.thm_extension # <<>> THEN rpd.thm_extension ELSE THM
        moved == move_associate_file(self, ext, rpd.download_full_base_name,
                                     thm_error)
    IN  Out(moved.self,
            [rpd EXCEPT !.download_thm_full_name = moved.download_full_name,
                        !.thm = IF moved.success THEN "renamed"
                                ELSE "failed"],
            moved.success)

\* move_audio_file
move_audio_file(self, rpd, audio_error) ==
    LET ext == IF rpd.audio_extension # <<>> THEN rpd.audio_extension ELSE WAV
        moved == move_associate_file(self, ext, rpd.download_full_base_name,
                                     audio_error)
    IN  Out(moved.self,
            [rpd EXCEPT !.download_audio_full_name = moved.download_full_name,
                        !.audio = IF moved.success THEN "renamed"
                                  ELSE "failed"],
            moved.success)

\* process_file: the rename of the XMP sidecar
move_xmp_file(self, rpd, xmp_error) ==
    IF xmp_error THEN Out(self, [rpd EXCEPT !.xmp = "failed"], FALSE)
    ELSE Out([self EXCEPT !.disk = @ \cup {rpd.download_full_base_name
                                              \o rpd.xmp_extension}],
             [rpd EXCEPT !.download_xmp_full_name =
                             rpd.download_full_base_name \o rpd.xmp_extension,
                         !.xmp = "renamed"],
             TRUE)

\* process_file: if rpd_file.temp_thm_full_name / temp_audio_full_name /
\* temp_xmp_full_name, each after the one before
thm_moved(after, x) ==
    IF after.rpd.temp_thm_full_name # <<>>
    THEN move_thm_file(after.self, after.rpd, x.thm_error) ELSE after
audio_moved(after, x) ==
    IF after.rpd.temp_audio_full_name # <<>>
    THEN move_audio_file(after.self, after.rpd, x.audio_error) ELSE after
xmp_moved(after, x) ==
    IF after.rpd.temp_xmp_full_name # <<>>
    THEN move_xmp_file(after.self, after.rpd, x.xmp_error) ELSE after

\* the sidecar block of process_file as it would be if a failed move of the
\* thumbnail ended the block and were returned as the outcome
associates_moved_until_failure(after, x) ==
    IF thm_moved(after, x).ret
    THEN Out(xmp_moved(audio_moved(thm_moved(after, x), x), x).self,
             xmp_moved(audio_moved(thm_moved(after, x), x), x).rpd,
             TRUE)
    ELSE Out(thm_moved(after, x).self, thm_moved(after, x).rpd, FALSE)

\* process_file after the sequences advanced: the sidecars, then
\* return move_succeeded
associates_moved(after, x) ==
    Out(xmp_moved(audio_moved(thm_moved(after, x), x), x).self,
        xmp_moved(audio_moved(thm_moved(after, x), x), x).rpd,
        TRUE)

\* process_file from move_file on
moved_file(synchronize_raw_jpg, sync_result, moved, x) ==
    IF moved.ret
    THEN associates_moved(after_move(synchronize_raw_jpg, sync_result,
                                     moved.self, moved.rpd), x)
    ELSE Out(moved.self, moved.rpd, FALSE)

\* process_file from generate_names on
named_file(synchronize_raw_jpg, sync, generated, x) ==
    IF generated.ret
    THEN moved_file(synchronize_raw_jpg, sync.ret,
                    move_file(sync.self, generated.rpd, x.mkdir_error,
                              x.rename_error, x.identifier_rename_error), x)
    ELSE Out(sync.self, generated.rpd, FALSE)

\* process_file once sync_raw_jpg is done
synced_file(synchronize_raw_jpg, sync, x) ==
    IF sync.ret.failed THEN Out(sync.self, sync.rpd, FALSE)
    ELSE named_file(synchronize_raw_jpg, sync,
                    generate_names(sync.self, sync.rpd, x.metadata_ok), x)

\* process_file; x = [metadata_ok, mkdir_error, rename_error,
\* identifier_rename_error], the answers of the metadata service and of the
\* filesystem calls
process_file(self, rpd, x) ==
    IF self.prefs.synchronize_raw_jpg /\ rpd.file_type = "photo"
    THEN synced_file(TRUE, sync_raw_jpg(self, prepare_rpd_file(self, rpd),
                                        x.metadata_ok), x)
    ELSE synced_file(FALSE,
                     Out(self, prepare_rpd_file(self, rpd),
                         SyncRawJpegResult(None, FALSE, <<<<>>, <<>>>>)),
                     x)

\* process_rename_failure: os.remove of the temp file
process_rename_failure(rpd) ==
    IF rpd.temp = "present" THEN [rpd EXCEPT !.temp = "removed"] ELSE rpd

(***************************************************************************)
(* The inputs the model draws from.                                        *)
(***************************************************************************)
\* file names and capture times of the requests: a RAW + JPEG pair, a JPEG of
\* the same base name taken at another time, and a video
A_CR2 == <<"A", ".", "C", "R", "2">>
A_JPG == <<"A", ".", "J", "P", "G">>
B_MOV == <<"B", ".", "M", "O", "V">>

Files == {[name |-> A_CR2, file_type |-> "photo", dt |-> 1, ss |-> 0],
          [name |-> A_JPG, file_type |-> "photo", dt |-> 1, ss |-> 0],
          [name |-> A_JPG, file_type |-> "photo", dt |-> 1, ss |-> 5],
          [name |-> B_MOV, file_type |-> "video", dt |-> 1, ss |-> 0]}

\* the token lists of the preferences
ByFilename == <<Tok("filename"), Tok("extension")>>
BySession == <<Text(<<"I">>), Tok("session"), Tok("extension")>>
ByMatched == <<Text(<<"I">>), Tok("matched"), Tok("extension")>>
ByStoredLetter == <<Text(<<"I">>), Tok("stored"), Tok("letter"), Tok("extension")>>
Subfolder == <<Text(<<"d">>)>>

Renames == {[photo |-> ByFilename, video |-> ByFilename],
            [photo |-> BySession, video |-> BySession],
            [photo |-> ByMatched, video |-> BySession],
            [photo |-> ByStoredLetter, video |-> ByStoredLetter]}

Policies == [conflict : {"skip", "add_identifier"}, sync : BOOLEAN]

\* the settings of the user; the matched token is used with the RAW + JPEG
\* synchronisation it belongs to
SettingChoices ==
    {[conflict_resolution |-> c[1].conflict, synchronize_raw_jpg |-> c[1].sync,
      photo_rename |-> c[2].photo, video_rename |-> c[2].video,
      photo_subfolder |-> Subfolder, video_subfolder |-> Subfolder,
      photo_download_folder |-> <<SEP, "p">>,
      video_download_folder |-> <<SEP, "v">>,
      stored_sequence_no |-> 0, downloads_today |-> [date |-> 1, count |-> 0]] :
        c \in {c \in Policies \X Renames :
                    /\ (c[2].photo = ByMatched) => c[1].sync
                    /\ (c[2].photo = ByStoredLetter) => ~c[1].sync}}

\* settings whose token lists generate nothing: a subfolder that is only a
\* separator, a file name that is only the job code, which no file has
OnlySeparator == <<Tok("separator")>>
OnlyJobCode == <<Tok("job_code")>>
NoNameChoices ==
    {[conflict_resolution |-> "skip", synchronize_raw_jpg |-> FALSE,
      photo_rename |-> c[1], video_rename |-> c[1],
      photo_subfolder |-> c[2], video_subfolder |-> c[2],
      photo_download_folder |-> <<SEP, "p">>,
      video_download_folder |-> <<SEP, "v">>,
      stored_sequence_no |-> 0, downloads_today |-> [date |-> 1, count |-> 0]] :
        c \in {<<ByFilename, OnlySeparator>>, <<OnlyJobCode, Subfolder>>,
               <<OnlyJobCode, OnlySeparator>>}}

PrefChoices == SettingChoices \cup NoNameChoices

\* the photo destination folder holds files of an earlier run of the program:
\* two photos and the XMP sidecar of the first
PhotoPath == <<SEP, "p", SEP, "d">>
OnDisk == {join(PhotoPath, A_JPG),
           join(PhotoPath, <<"A", "_", "1">> \o splitext(A_JPG)[2]),
           join(PhotoPath, <<"A">> \o XMP)}

\* the arguments the tracker specification draws from
TrackerNames == {<<"A">>, <<"B">>}
TrackerExts == {splitext(A_CR2)[2], splitext(A_JPG)[2]}
TrackerTimes == {1, 2}
TrackerSubSeconds == {0, 5}
TrackerSequences == {0, 1}

\* what the metadata service, os.makedirs, the two os.rename calls and
\* process_renamed_file answer for one file: all succeed, or one of them
\* fails, or another process writes the destination during the request
Faults == {"none", "metadata", "mkdir", "rename", "identifier_rename",
           "thumbnail", "thm", "audio", "xmp", "other_writer"}
\* the renames of sidecars can fail only for a file that declares them; the
\* other writer is one that writes RAW files
FaultsOf(f) ==
    {fault \in Faults :
        /\ fault \in {"thm", "audio", "xmp"} => Declares(f, fault)
        /\ fault = "other_writer" => f.name = A_CR2}
Answers(fault) == [metadata_ok |-> fault # "metadata",
                   mkdir_error |-> fault = "mkdir",
                   rename_error |-> fault = "rename",
                   identifier_rename_error |-> fault = "identifier_rename",
                   thumbnail_raises |-> fault = "thumbnail",
                   thm_error |-> fault = "thm",
                   audio_error |-> fault = "audio",
                   xmp_error |-> fault = "xmp",
                   other_writer |-> fault = "other_writer"]

(***************************************************************************)
(* State.                                                                  *)
(***************************************************************************)
VARIABLES
    prefs,            \* self.prefs
    photos,           \* self.sync_raw_jpeg.photos
    sequences,        \* self.sequences
    downloads_today,  \* self.downloads_today_tracker.downloads_today
    duplicate_files,  \* self.duplicate_files
    disk,             \* files in the destination folders
    dirs,             \* directories that exist
    crashed,          \* run() was left by an exception
    receiver,         \* messages sent to the daemon and not yet received
    sink,             \* the results the daemon sent, oldest first
    store,            \* the main process's preference store
    phase,            \* the main process: "idle" or "active" (in a session)
    sessions,         \* download_started messages sent
    files_sent,       \* file requests sent
    received,         \* file requests the daemon took from the receiver
    last,             \* what the daemon did with the last message
    start,            \* the sequence values at the last download_started
    placed,           \* the files renamed to a destination in the session
    probe,            \* the last matching_pair answer (tracker specification)
    editor            \* the name editor's dialog (editor specification)

vars == <<prefs, photos, sequences, downloads_today, duplicate_files, disk,
          dirs, crashed, receiver, sink, store, phase, sessions, files_sent,
          received, last, start, placed, probe, editor>>

daemon_vars == <<prefs, photos, sequences, downloads_today, duplicate_files,
                 disk, dirs, crashed, sink, store, received, last, start,
                 placed>>

Self == [prefs |-> prefs, photos |-> photos, sequences |-> sequences,
         downloads_today |-> downloads_today,
         duplicate_files |-> duplicate_files, disk |-> disk, dirs |-> dirs,
         other_writer |-> FALSE]

NoProbe == [status |-> "none", sequence_number |-> None, name |-> <<>>,
            extension |-> <<>>, date_time |-> None, sub_seconds |-> None]

\* no dialog is open
NoEditor == [open |-> FALSE]

Init ==
    /\ prefs \in PrefChoices
    /\ photos = SyncRawJpeg_init
    /\ sequences = Sequences(0)
    /\ downloads_today = [date |-> 1, count |-> 0]
    /\ duplicate_files = <<>>
    /\ disk = OnDisk
    /\ dirs = {PhotoPath}
    /\ crashed = FALSE
    /\ receiver = <<>>
    /\ sink = <<>>
    /\ store = [stored_sequence_no |-> 7,
                downloads_today |-> [date |-> 1, count |-> 3]]
    /\ phase = "idle"
    /\ sessions = 0
    /\ files_sent = 0
    /\ received = 0
    /\ last = [kind |-> "none"]
    /\ start = [stored_sequence_no |-> 0,
                downloads_today |-> [date |-> 1, count |-> 0]]
    /\ placed = <<>>
    /\ probe = NoProbe
    /\ editor = NoEditor

(***************************************************************************)
(* The main process: it brackets file requests by download_started and     *)
(* download_completed, and persists what a SessionResult carries.          *)
(***************************************************************************)
Msg(message, id) == [message |-> message, id |-> id]

SendDownloadStarted ==
    /\ Len(receiver) < MaxQueue
    /\ phase = "idle"
    /\ sessions < MaxSessions
    /\ receiver' = Append(receiver, Msg("download_started", sessions + 1))
    /\ phase' = "active"
    /\ sessions' = sessions + 1
    /\ UNCHANGED <<daemon_vars, files_sent, probe, editor>>

SendFile ==
    /\ Len(receiver) < MaxQueue
    /\ phase = "active"
    /\ files_sent < MaxFiles
    /\ receiver' = Append(receiver, Msg("file", files_sent + 1))
    /\ files_sent' = files_sent + 1
    /\ UNCHANGED <<daemon_vars, phase, sessions, probe, editor>>

SendDownloadCompleted ==
    /\ Len(receiver) < MaxQueue
    /\ phase = "active"
    /\ receiver' = Append(receiver, Msg("download_completed", sessions))
    /\ phase' = "idle"
    /\ UNCHANGED <<daemon_vars, sessions, files_sent, probe, editor>>

\* the dates get_or_reset_downloads_today may find at download_started; the
\* date does not change during a session
Days == {1, 2}

(***************************************************************************)
(* RenameMoveFileWorker.run: one action per message kind, each the whole   *)
(* loop iteration from recv_multipart to send_message_to_sink.             *)
(***************************************************************************)
Receives(message) ==
    /\ ~crashed
    /\ receiver # <<>>
    /\ Head(receiver).message = message
    /\ receiver' = Tail(receiver)

\* data.message == RenameAndMoveStatus.download_started.  prefs.sync() reads
\* the stored values anew; the user's settings are kept the same over the
\* daemon's lifetime
DownloadStarted(now) ==
    /\ Receives("download_started")
    /\ now >= store.downloads_today.date
    /\ prefs' = [prefs EXCEPT !.stored_sequence_no = store.stored_sequence_no,
                              !.downloads_today = store.downloads_today]
    /\ downloads_today' = get_or_reset_downloads_today(store.downloads_today, now)
    /\ sequences' = Sequences(store.stored_sequence_no)
    /\ start' = [stored_sequence_no |-> store.stored_sequence_no,
                 downloads_today |-> downloads_today']
    /\ placed' = <<>>
    /\ last' = [kind |-> "download_started"]
    /\ UNCHANGED <<photos, duplicate_files, disk, dirs, crashed, sink, store,
                   received, phase, sessions, files_sent, probe, editor>>

\* data.message == RenameAndMoveStatus.download_completed
SessionResult == [kind |-> "download_completed",
                  stored_sequence_no |-> sequences.stored_sequence_no,
                  downloads_today |-> downloads_today]

DownloadCompleted ==
    /\ Receives("download_completed")
    /\ last' = SessionResult
    /\ downloads_today' = get_or_reset_downloads_today(downloads_today,
                                                        downloads_today.date)
    /\ sink' = Append(sink, Msg("download_completed", Head(receiver).id))
    /\ store' = [stored_sequence_no |-> SessionResult.stored_sequence_no,
                 downloads_today |-> SessionResult.downloads_today]
    /\ UNCHANGED <<prefs, photos, sequences, duplicate_files, disk, dirs,
                   crashed, received, start, placed, phase, sessions,
                   files_sent, probe, editor>>

\* what a FileResult carries
\* download_succeeded is the flag of the request; process_renamed_file,
\* the only source of a thumbnail, is called for a file that was moved
FileResult(id, rpd, download_succeeded, move_succeeded) ==
    [kind |-> "file", id |-> id, download_succeeded |-> download_succeeded,
     move_succeeded |-> move_succeeded, rpd_file |-> rpd,
     renamed_file_processed |-> download_succeeded /\ move_succeeded]

\* a file request whose download_succeeded is false, as it would be if it
\* were handled like a failed rename
FileNotDownloadedAsRenameFailure(f) ==
    /\ Receives("file")
    /\ received' = received + 1
    /\ last' = FileResult(Head(receiver).id,
                          process_rename_failure(RPDFile(f)), FALSE, FALSE)
    /\ sink' = Append(sink, Msg("file", Head(receiver).id))
    /\ UNCHANGED <<prefs, photos, sequences, downloads_today, duplicate_files,
                   disk, dirs, crashed, store, start, placed, phase, sessions,
                   files_sent, probe, editor>>

\* a file request whose download_succeeded is false
FileNotDownloaded(f) ==
    /\ Receives("file")
    /\ received' = received + 1
    /\ last' = FileResult(Head(receiver).id, RPDFile(f), FALSE, FALSE)
    /\ sink' = Append(sink, Msg("file", Head(receiver).id))
    /\ UNCHANGED <<prefs, photos, sequences, downloads_today, duplicate_files,
                   disk, dirs, crashed, store, start, placed, phase, sessions,
                   files_sent, probe, editor>>

Placement(rpd) == [name |-> rpd.name, dt |-> rpd.dt, ss |-> rpd.ss,
                   file_type |-> rpd.file_type,
                   destination |-> rpd.download_full_file_name,
                   generated |-> rpd.download_full_base_name
                                     \o splitext(rpd.download_name)[2],
                   status |-> rpd.status,
                   named_session |-> rpd.named_session,
                   named_matched |-> rpd.named_matched,
                   tracked |-> rpd.tracked, advanced |-> rpd.advanced]

\* a file request whose download_succeeded is true; fault names the call that
\* fails, if any ("thumbnail": an exception leaves process_renamed_file)
File(f, fault) ==
    /\ Receives("file")
    /\ received' = received + 1
    /\ \E x \in {Answers(fault)} :
       \E done \in {process_file([Self EXCEPT !.other_writer = x.other_writer],
                                 RPDFile(f), x)} :
       \E rpd \in {IF done.ret THEN done.rpd
                    ELSE process_rename_failure(done.rpd)} :
           /\ prefs' = done.self.prefs
           /\ photos' = done.self.photos
           /\ sequences' = done.self.sequences
           /\ downloads_today' = done.self.downloads_today
           /\ duplicate_files' = done.self.duplicate_files
           /\ disk' = done.self.disk
           /\ dirs' = done.self.dirs
           /\ placed' = IF rpd.temp = "renamed"
                        THEN Append(placed, Placement(rpd)) ELSE placed
           /\ IF done.ret /\ x.thumbnail_raises
              THEN /\ crashed' = TRUE
                   /\ last' = [kind |-> "exception",
                               id |-> Head(receiver).id, rpd_file |-> rpd]
                   /\ sink' = sink
              ELSE /\ crashed' = FALSE
                   /\ last' = FileResult(Head(receiver).id, rpd, TRUE,
                                         done.ret)
                   /\ sink' = Append(sink, Msg("file", Head(receiver).id))
    /\ UNCHANGED <<store, start, phase, sessions, files_sent, probe, editor>>

Next ==
    \/ SendDownloadStarted
    \/ SendFile
    \/ SendDownloadCompleted
    \/ \E now \in Days : DownloadStarted(now)
    \/ DownloadCompleted
    \/ \E f \in Files : FileNotDownloaded(f)
    \/ \E f \in Files : \E fault \in FaultsOf(f) : File(f, fault)

Spec == Init /\ [][Next]_vars

(***************************************************************************)
(* The tracker alone: SyncRawJpeg under any sequence of add_download and   *)
(* matching_pair calls.                                                    *)
(***************************************************************************)
InitTracker ==
    /\ Init
    /\ prefs = CHOOSE p \in PrefChoices : p.synchronize_raw_jpg

AddDownload(name, extension, date_time, sub_seconds, sequence_number_used) ==
    /\ photos' = add_download(photos, name, extension, date_time, sub_seconds,
                              sequence_number_used)
    /\ last' = [kind |-> "add_download", name |-> name,
                extension |-> extension, date_time |-> date_time,
                sub_seconds |-> sub_seconds,
                sequence_number_used |-> sequence_number_used]
    /\ probe' = NoProbe
    /\ UNCHANGED <<prefs, sequences, downloads_today, duplicate_files, disk,
                   dirs, crashed, receiver, sink, store, phase, sessions,
                   files_sent, received, start, placed, editor>>

MatchingPair(name, extension, date_time, sub_seconds) ==
    /\ probe' = [matching_pair(photos, name, extension, date_time, sub_seconds)
                   EXCEPT !.status = @] @@
                [name |-> name, extension |-> extension,
                 date_time |-> date_time, sub_seconds |-> sub_seconds]
    /\ last' = [kind |-> "matching_pair"]
    /\ UNCHANGED <<prefs, photos, sequences, downloads_today, duplicate_files,
                   disk, dirs, crashed, receiver, sink, store, phase, sessions,
                   files_sent, received, start, placed, editor>>

NextTracker ==
    \/ \E name \in TrackerNames, extension \in TrackerExts,
          date_time \in TrackerTimes, sub_seconds \in TrackerSubSeconds,
          sequence_number_used \in TrackerSequences :
            AddDownload(name, extension, date_time, sub_seconds,
                        sequence_number_used)
    \/ \E name \in TrackerNames, extension \in TrackerExts,
          date_time \in TrackerTimes, sub_seconds \in TrackerSubSeconds :
            MatchingPair(name, extension, date_time, sub_seconds)

SpecTracker == InitTracker /\ [][NextTracker]_vars

(***************************************************************************)
(* Properties of the tracker.                                              *)
(***************************************************************************)
IsPrefix(a, b) == Len(a) <= Len(b) /\ SubSeq(b, 1, Len(a)) = a
NoDuplicates(list) ==
    \A i, j \in 1..Len(list) : list[i] = list[j] => i = j

\* C6: matching_pair answers no_match with no sequence iff the base name has
\* no entry; error_already_downloaded with the entry's sequence iff the
\* entry's time and sub-seconds equal the arguments and the extension is in
\* its list; matching_pair with the entry's sequence iff the times are equal
\* and the extension is not in the list; error_datetime_mismatch with no
\* sequence iff the entry exists and its time or sub-seconds differ.
MatchingPairClassifies ==
    probe.status # "none" =>
        LET known == probe.name \in DOMAIN photos
            same_time == /\ known
                         /\ photos[probe.name].dt = probe.date_time
                         /\ photos[probe.name].ss = probe.sub_seconds
            listed == known /\ InList(probe.extension, photos[probe.name].exts)
            recorded == known /\ probe.sequence_number = photos[probe.name].seq
        IN  /\ (probe.status = "no_match" /\ probe.sequence_number = None)
                <=> ~known
            /\ (probe.status = "error_already_downloaded" /\ recorded)
                <=> (same_time /\ listed)
            /\ (probe.status = "matching_pair" /\ recorded)
                <=> (same_time /\ ~listed)
            /\ (probe.status = "error_datetime_mismatch"
                /\ probe.sequence_number = None)
                <=> (known /\ ~same_time)

\* a counterpart is asked for: same name and time, another extension
MatchingPairFound ==
    /\ probe.status = "matching_pair"
    /\ probe.sequence_number = 1
    /\ Len(photos[probe.name].exts) = 1

\* C7: add_download never removes an entry, never changes an entry's
\* date-time, sub-seconds or sequence number, only appends to its extension
\* list and never an extension it holds; for an unseen base name it creates
\* exactly one entry holding that one extension.
TrackerEntriesKept ==
    [][/\ \A name \in DOMAIN photos :
            /\ name \in DOMAIN photos'
            /\ photos'[name].dt = photos[name].dt
            /\ photos'[name].ss = photos[name].ss
            /\ photos'[name].seq = photos[name].seq
            /\ IsPrefix(photos[name].exts, photos'[name].exts)
       /\ \A name \in DOMAIN photos' : NoDuplicates(photos'[name].exts)
       /\ (last'.kind = "add_download" /\ last'.name \notin DOMAIN photos) =>
            /\ DOMAIN photos' = DOMAIN photos \cup {last'.name}
            /\ photos'[last'.name] =
                 [exts |-> <<last'.extension>>, dt |-> last'.date_time,
                  ss |-> last'.sub_seconds,
                  seq |-> last'.sequence_number_used]]_vars

\* an entry was extended by a second extension, with another time and
\* sequence number than the entry's
TrackerEntryExtended ==
    /\ last.kind = "add_download"
    /\ last.name \in DOMAIN photos
    /\ Len(photos[last.name].exts) = 2
    /\ photos[last.name].exts[2] = last.extension
    /\ photos[last.name].dt # last.date_time
    /\ photos[last.name].seq # last.sequence_number_used

(***************************************************************************)
(* Properties of the daemon.  A step with received' = received + 1 handles *)
(* one file request; last' then holds what the daemon did with it.         *)
(***************************************************************************)
\* the destination path generate_names and move_file gave the file, before
\* any identifier
Generated(rpd) == rpd.download_full_base_name \o splitext(rpd.download_name)[2]

\* that path with the identifier _n before the extension
Identified(rpd, n) ==
    rpd.download_full_base_name \o <<"_">> \o Str(n)
        \o splitext(rpd.download_name)[2]

\* the least n >= from whose identified path is not among files
FirstUnused(rpd, from, files) ==
    CHOOSE n \in from..(from + Cardinality(files)) :
        /\ Identified(rpd, n) \notin files
        /\ \A m \in from..(n - 1) : Identified(rpd, m) \in files

\* the step handled a file whose generated destination existed, under the
\* add-identifier policy
ConflictUnderAddIdentifier ==
    /\ received' = received + 1
    /\ prefs.conflict_resolution = "add_identifier"
    /\ last'.rpd_file.download_full_base_name # <<>>
    /\ Generated(last'.rpd_file) \in disk

\* C1 as stated: when the generated destination exists and the policy is
\* add-identifier, the temp file is renamed to the stem with the first unused
\* suffix _N, and the status is downloaded_with_warning, not failed.
ConflictPlacedAtFirstUnusedSuffix ==
    [][ConflictUnderAddIdentifier =>
        LET rpd == last'.rpd_file
            n == FirstUnused(rpd, 1, disk)
        IN  /\ rpd.status = "downloaded_with_warning"
            /\ rpd.temp = "renamed"
            /\ rpd.download_full_file_name = Identified(rpd, n)
            /\ disk' = disk \cup {Identified(rpd, n)}]_vars

\* C1, amended: the counter the daemon keeps for the generated path moves to
\* the first value N above its old value whose name <stem>_N<ext> is not on
\* disk; the temp file is renamed to that name with status
\* downloaded_with_warning, unless that rename fails with an error other than
\* "file exists": then the file is failed with a copying error, nothing is
\* placed and N stays used.
ConflictPlacedAtNextUnusedSuffix ==
    [][ConflictUnderAddIdentifier =>
        LET rpd == last'.rpd_file
            n == FirstUnused(rpd, Get(duplicate_files, Generated(rpd)) + 1, disk)
        IN  /\ Get(duplicate_files', Generated(rpd)) = n
            /\ \/ /\ rpd.status = "downloaded_with_warning"
                  /\ InList("UNIQUE_IDENTIFIER_ADDED", rpd.problems)
                  /\ rpd.temp = "renamed"
                  /\ rpd.download_full_file_name = Identified(rpd, n)
                  /\ disk' = disk \cup {Identified(rpd, n)}
               \/ /\ rpd.status = "download_failed"
                  /\ InList("DOWNLOAD_COPYING_ERROR", rpd.problems)
                  /\ rpd.temp # "renamed"
                  /\ disk' = disk]_vars

\* a file was placed with the identifier _2 after _1 was found on disk
PlacedWithSecondIdentifier ==
    /\ last.kind = "file"
    /\ last.rpd_file.status = "downloaded_with_warning"
    /\ last.rpd_file.temp = "renamed"
    /\ last.rpd_file.download_full_file_name = Identified(last.rpd_file, 2)
    /\ Identified(last.rpd_file, 1) \in disk
    /\ Get(duplicate_files, Generated(last.rpd_file)) = 2

\* C2: every file that ends up at a destination, a placement with a _N
\* identifier included, is recorded by the tracker (in sync mode) and advances
\* the applicable counters before the next request is handled.
PlacedFileRecordedAndCounted ==
    [][(received' = received + 1 /\ last'.rpd_file.temp = "renamed") =>
        LET rpd == last'.rpd_file
            sync == prefs.synchronize_raw_jpg /\ rpd.file_type = "photo"
            photo == splitext(rpd.name)
            fresh == \/ ~sync
                     \/ matching_pair(photos, photo[1], photo[2], rpd.dt,
                                      rpd.ss).sequence_number = None
        IN  /\ sync => /\ photo[1] \in DOMAIN photos'
                       /\ InList(photo[2], photos'[photo[1]].exts)
            /\ fresh =>
                 /\ downloads_today'.count = downloads_today.count + 1
                 /\ any_pref_uses_session_sequence_no(prefs) =>
                      sequences'.session_sequence_no
                          = sequences.session_sequence_no + 1
                 /\ any_pref_uses_sequence_letter_value(prefs) =>
                      sequences'.sequence_letter = sequences.sequence_letter + 1
                 /\ any_pref_uses_stored_sequence_no(prefs) =>
                      prefs'.stored_sequence_no = prefs.stored_sequence_no + 1]_vars

\* the counters of the claim C3
Counters ==
    [session_sequence_no |-> sequences.session_sequence_no,
     sequence_letter |-> sequences.sequence_letter,
     stored_sequence_no |-> prefs.stored_sequence_no,
     sequences_stored_sequence_no |-> sequences.stored_sequence_no,
     downloads_today |-> downloads_today.count]

\* C3: a file whose processing fails leaves session_sequence_no,
\* sequence_letter, stored_sequence_no and the downloads_today count as they
\* were; a counter changes by at most 1 per file and only when the file's
\* rename succeeded.
FailedFileKeepsCounters ==
    [][received' = received + 1 =>
        /\ (last'.rpd_file.status = "download_failed"
            \/ last'.rpd_file.temp # "renamed") => Counters' = Counters
        /\ \A c \in DOMAIN Counters : Counters'[c] \in {Counters[c], Counters[c] + 1}
      ]_vars

\* a rename failed with a filesystem error after earlier files had advanced
\* the counters
FailedAfterCountersAdvanced ==
    /\ last.kind = "file"
    /\ last.rpd_file.status = "download_failed"
    /\ InList("DOWNLOAD_COPYING_ERROR", last.rpd_file.problems)
    /\ sequences.session_sequence_no > 0
    /\ downloads_today.count > start.downloads_today.count

\* C4: within one session, of two placed files named from the session
\* sequence number, the later is named with a value at least 1 above the
\* earlier's.
SessionValuesIncrease ==
    \A i, j \in 1..Len(placed) :
        (i < j /\ placed[i].named_session # None
               /\ placed[j].named_session # None)
            => placed[j].named_session >= placed[i].named_session + 1

\* C5: in sync mode, two photos of one session with the same base name,
\* date-time and sub-seconds and different extensions are named with the same
\* sequence value, the second consumes no fresh one, and the tracker's entry
\* for the base name lists both extensions.
PairSharesSequenceValue ==
    prefs.synchronize_raw_jpg =>
        \A i, j \in 1..Len(placed) :
            LET first == splitext(placed[i].name)
                second == splitext(placed[j].name)
            IN  (/\ i < j
                 /\ placed[i].file_type = "photo"
                 /\ placed[j].file_type = "photo"
                 /\ first[1] = second[1]
                 /\ first[2] # second[2]
                 /\ placed[i].dt = placed[j].dt
                 /\ placed[i].ss = placed[j].ss
                 /\ placed[i].named_matched # None)
                => /\ placed[j].named_matched = placed[i].named_matched
                   /\ ~placed[j].advanced
                   /\ first[1] \in DOMAIN photos
                   /\ InList(first[2], photos[first[1]].exts)
                   /\ InList(second[2], photos[first[1]].exts)

\* C8: after download_started the session counters are 0 and the tracker is
\* empty.
SessionStartsWithEmptyTracker ==
    last.kind = "download_started" =>
        /\ sequences.session_sequence_no = 0
        /\ sequences.sequence_letter = 0
        /\ photos = SyncRawJpeg_init

\* the files of the session that were placed with a fresh sequence
FreshPlacements == {i \in 1..Len(placed) : placed[i].advanced}

\* C9: the SessionResult carries the stored sequence number of the session's
\* start plus 1 for every file placed with a fresh sequence when the
\* preferences use the stored sequence number, and the start's value when
\* they do not.
SessionResultCarriesFinalStored ==
    last.kind = "download_completed" =>
        last.stored_sequence_no =
            start.stored_sequence_no
                + (IF any_pref_uses_stored_sequence_no(prefs)
                   THEN Cardinality(FreshPlacements) ELSE 0)

\* the ids of the file results in the sink, oldest first
RECURSIVE FileResults(_)
FileResults(results) ==
    IF results = <<>> THEN <<>>
    ELSE IF Head(results).message = "file"
         THEN <<Head(results).id>> \o FileResults(Tail(results))
         ELSE FileResults(Tail(results))

\* C10: every file request the daemon received has got its one FileResult,
\* in the order of the requests, whatever happened to earlier files.
EveryRequestAnswered ==
    FileResults(sink) = [i \in 1..received |-> i]

\* the largest identifier a run can reach: every file on disk and every
\* request can use one up
MaxIdentifier == Cardinality(OnDisk) + MaxFiles * MaxSessions

\* a path with the identifier _n before its extension
WithIdentifier(path, n) ==
    splitext(path)[1] \o <<"_">> \o Str(n) \o splitext(path)[2]

\* the identifier of a placement: 0 for the generated path itself
IdentifierOf(p) ==
    IF p.destination = p.generated THEN 0
    ELSE CHOOSE n \in 1..MaxIdentifier :
            p.destination = WithIdentifier(p.generated, n)

\* the placements of the session before the j-th with the same generated path
EarlierDuplicates(j) ==
    {i \in 1..(j - 1) : placed[i].generated = placed[j].generated}

\* C11 as stated: files of one session that generate the identical
\* destination path are placed, in order, at the plain name, then with _1,
\* then with _2: the k-th placement after the plain one carries _k.
DuplicatesNumberedConsecutively ==
    \A j \in 1..Len(placed) :
        (\E i \in EarlierDuplicates(j) : IdentifierOf(placed[i]) = 0)
            => IdentifierOf(placed[j]) = Cardinality(EarlierDuplicates(j))

\* C11, amended: among the files placed in a session for one generated
\* destination path the identifiers strictly increase in the order of
\* placement, the plain name counting as the lowest, so no two placed files
\* share a final path; the identifiers need not be consecutive, since an
\* identifier whose rename failed is not handed out again.
DuplicatesNumberedIncreasingly ==
    \A j \in 1..Len(placed) :
        /\ \A i \in EarlierDuplicates(j) :
               IdentifierOf(placed[i]) < IdentifierOf(placed[j])
        /\ \A i \in 1..(j - 1) : placed[i].destination # placed[j].destination

\* two files of one generated path were placed in a session, the first at
\* the plain name and the second with _2, _1 having gone to a failed rename
DuplicatePlacedAfterFailedIdentifier ==
    /\ Len(placed) = 2
    /\ placed[1].generated = placed[2].generated
    /\ IdentifierOf(placed[1]) = 0
    /\ IdentifierOf(placed[2]) = 2
    /\ WithIdentifier(placed[1].generated, 1) \notin disk
\* the step handled a file request for which generate_names ran
NamesGenerated ==
    /\ received' = received + 1
    /\ last'.rpd_file.generated

\* C12: when the generated subfolder or the generated file name is empty, the
\* file is reported failed with a name-generation problem and nothing happens
\* at the destination: no directory is created, neither the primary file nor
\* a sidecar is renamed or attempted.
EmptyNameFailsBeforeDestination ==
    [][(/\ NamesGenerated
        /\ \/ last'.rpd_file.download_subfolder = <<>>
           \/ last'.rpd_file.download_name = <<>>) =>
        LET rpd == last'.rpd_file
        IN  /\ last'.kind = "file"
            /\ ~last'.move_succeeded
            /\ rpd.status = "download_failed"
            /\ InList("ERROR_IN_NAME_GENERATION", rpd.problems)
            /\ rpd.temp # "renamed"
            /\ rpd.download_thm_full_name = <<>>
            /\ rpd.download_audio_full_name = <<>>
            /\ rpd.download_xmp_full_name = <<>>
            /\ "renamed" \notin {rpd.thm, rpd.audio, rpd.xmp}
            /\ disk' = disk
            /\ dirs' = dirs
            /\ placed' = placed]_vars

\* a video with sidecars failed because only its file name came out empty
SidecarFileFailedOnEmptyName ==
    /\ last.kind = "file"
    /\ last.rpd_file.generated
    /\ last.rpd_file.temp_thm_full_name # <<>>
    /\ last.rpd_file.download_subfolder # <<>>
    /\ last.rpd_file.download_name = <<>>
    /\ last.rpd_file.status = "download_failed"
\* C13: the name-generation failure names exactly which output was empty:
\* 'subfolder' iff the subfolder token list generates an empty string and the
\* file name token list a non-empty one, 'filename' iff only the file name is
\* empty, 'subfolder and filename' iff both lists generate empty strings.
FailureNamesTheEmptyOutput ==
    [][(NamesGenerated /\ last'.rpd_file.metadata_loaded) =>
        LET rpd == last'.rpd_file
            subfolder == SubfolderGenerate(rpd.subfolder_pref_list, rpd,
                                           sequences, downloads_today)
            filename == NameGenerate(rpd.name_pref_list, rpd, sequences,
                                     downloads_today)
        IN  /\ rpd.error_area = "subfolder"
                <=> (subfolder = <<>> /\ filename # <<>>)
            /\ rpd.error_area = "filename"
                <=> (subfolder # <<>> /\ filename = <<>>)
            /\ rpd.error_area = "subfolder and filename"
                <=> (subfolder = <<>> /\ filename = <<>>)]_vars
\* the step handled a file whose generated destination existed, under a
\* policy other than add-identifier
ConflictUnderSkip ==
    /\ received' = received + 1
    /\ prefs.conflict_resolution # "add_identifier"
    /\ last'.rpd_file.download_full_base_name # <<>>
    /\ Generated(last'.rpd_file) \in disk

\* C14: when the destination path exists and the policy is not
\* add-identifier, the file is reported failed with an 'already exists'
\* problem, the temp file is renamed to no destination, the destination
\* folder keeps exactly the files it had and no identifier counter moves.
ConflictUnderSkipFailsUntouched ==
    [][ConflictUnderSkip =>
        LET rpd == last'.rpd_file
        IN  /\ last'.kind = "file"
            /\ ~last'.move_succeeded
            /\ rpd.status = "download_failed"
            /\ InList("FILE_ALREADY_EXISTS_NO_DOWNLOAD", rpd.problems)
            /\ ~InList("UNIQUE_IDENTIFIER_ADDED", rpd.problems)
            /\ rpd.temp # "renamed"
            /\ rpd.download_full_file_name = Generated(rpd)
            /\ disk' = disk
            /\ placed' = placed
            /\ duplicate_files' = duplicate_files]_vars

\* a second file of a session was refused because the first had taken its
\* destination
RefusedAfterPlacement ==
    /\ last.kind = "file"
    /\ prefs.conflict_resolution = "skip"
    /\ last.rpd_file.status = "download_failed"
    /\ InList("FILE_ALREADY_EXISTS_NO_DOWNLOAD", last.rpd_file.problems)
    /\ Len(placed) = 1
    /\ placed[1].destination = last.rpd_file.download_full_file_name
    /\ duplicate_files = <<>>
\* C15: when the rename of the primary file fails with an error other than
\* 'destination exists', the file is reported failed with the error attached
\* and its temp file is still at its temp path when the FileResult is
\* emitted.
FailedRenameLeavesTempFile ==
    (/\ last.kind = "file"
     /\ InList("DOWNLOAD_COPYING_ERROR", last.rpd_file.problems))
        => /\ ~last.move_succeeded
           /\ last.rpd_file.status = "download_failed"
           /\ last.rpd_file.temp = "present"
\* the sidecars a file declares, with the fields that tell their fate
DeclaredSidecars(rpd) ==
    {c \in {[temp |-> rpd.temp_thm_full_name, fate |-> rpd.thm, extension |-> THM,
             download |-> rpd.download_thm_full_name],
            [temp |-> rpd.temp_audio_full_name, fate |-> rpd.audio,
             extension |-> WAV, download |-> rpd.download_audio_full_name],
            [temp |-> rpd.temp_xmp_full_name, fate |-> rpd.xmp,
             extension |-> rpd.xmp_extension,
             download |-> rpd.download_xmp_full_name]} : c.temp # <<>>}

\* C16: every sidecar declared by a placed file is moved to the final base
\* name of the primary file plus the sidecar extension, the _N identifier of
\* the primary name included; a rename that raised is not held against it.
SidecarsFollowFinalName ==
    (last.kind = "file" /\ last.rpd_file.temp = "renamed") =>
        \A c \in DeclaredSidecars(last.rpd_file) :
            \/ c.fate = "failed"
            \/ /\ c.fate = "renamed"
               /\ c.download = splitext(last.rpd_file.download_full_file_name)[1]
                                   \o c.extension
               /\ c.download \in disk
\* the step handled a file one of whose sidecar renames raised
SidecarMoveFailed ==
    /\ received' = received + 1
    /\ \E c \in DeclaredSidecars(last'.rpd_file) : c.fate = "failed"

\* what process_file would have done with the request of the step had every
\* call succeeded
WithoutFailure(rpd) ==
    process_file(Self,
                 RPDFile(CHOOSE f \in Files : /\ f.name = rpd.name
                                               /\ f.dt = rpd.dt
                                               /\ f.ss = rpd.ss),
                 Answers("none"))

\* C17: a failed sidecar move leaves the outcome of the primary file as it
\* would have been without the failure: move_succeeded, the status and
\* problems, the final location, the tracker, the sequences and counters;
\* and every other declared sidecar is still moved.
SidecarFailureLeavesPrimaryOutcome ==
    [][SidecarMoveFailed =>
        \E rpd \in {last'.rpd_file} : \E ok \in {WithoutFailure(rpd)} :
            /\ last'.kind = "file"
            /\ last'.move_succeeded /\ ok.ret
            /\ rpd.status = ok.rpd.status
            /\ rpd.problems = ok.rpd.problems
            /\ rpd.temp = "renamed" /\ ok.rpd.temp = "renamed"
            /\ rpd.download_full_file_name = ok.rpd.download_full_file_name
            /\ rpd.download_full_file_name \in disk'
            /\ photos' = ok.self.photos
            /\ sequences' = ok.self.sequences
            /\ prefs' = ok.self.prefs
            /\ downloads_today' = ok.self.downloads_today
            /\ duplicate_files' = ok.self.duplicate_files
            /\ \A c \in DeclaredSidecars(rpd) :
                   \/ c.fate = "failed"
                   \/ c.fate = "renamed" /\ c.download \in disk'
            /\ ok.self.disk =
                   disk' \cup {rpd.download_full_base_name \o c.extension :
                                 c \in {d \in DeclaredSidecars(rpd) :
                                            d.fate = "failed"}}]_vars

\* the thumbnail of a video could not be moved; the video was placed and its
\* audio and XMP files were moved after the failure
SidecarsMovedAfterFailedThumbnail ==
    /\ last.kind = "file"
    /\ last.move_succeeded
    /\ last.rpd_file.temp = "renamed"
    /\ last.rpd_file.thm = "failed"
    /\ last.rpd_file.audio = "renamed"
    /\ last.rpd_file.xmp = "renamed"
    /\ last.rpd_file.download_audio_full_name \in disk
    /\ last.rpd_file.download_xmp_full_name \in disk
\* C18: when a sidecar move fails, the problems of the file in its FileResult
\* contain one that notes the missing sidecar: a problem the file would not
\* have without the failure.
SidecarFailureReported ==
    [][SidecarMoveFailed =>
        \E rpd \in {last'.rpd_file} : \E ok \in {WithoutFailure(rpd)} :
            /\ last'.kind = "file"
            /\ \E i \in 1..Len(rpd.problems) :
                   ~InList(rpd.problems[i], ok.rpd.problems)]_vars
\* the step placed, in sync mode, a photo whose base name the tracker held
\* with another capture time or other sub-seconds
MismatchedPhotoPlaced ==
    /\ received' = received + 1
    /\ prefs.synchronize_raw_jpg
    /\ last'.rpd_file.file_type = "photo"
    /\ last'.rpd_file.metadata_loaded
    /\ matching_pair(photos, splitext(last'.rpd_file.name)[1],
                     splitext(last'.rpd_file.name)[2], last'.rpd_file.dt,
                     last'.rpd_file.ss).status = "error_datetime_mismatch"
    /\ last'.rpd_file.temp = "renamed"

\* C19: in sync mode a photo whose base name is in the tracker with a
\* different capture time or sub-seconds is placed as an independent file:
\* named with a fresh sequence value (the one an unmatched file gets, not
\* one taken from the earlier record), the counters advancing as for an
\* unmatched file, and reported with status downloaded_with_warning and a
\* same-name-different-time problem.
MismatchedPhotoPlacedIndependently ==
    [][MismatchedPhotoPlaced =>
        \E rpd \in {last'.rpd_file} :
            /\ last'.kind = "file" => last'.move_succeeded
            /\ rpd.status = "downloaded_with_warning"
            /\ InList("SAME_FILE_DIFFERENT_EXIF", rpd.problems)
            /\ rpd.named_matched # None =>
                 rpd.named_matched = create_matched_sequences(sequences)
            /\ downloads_today'.count = downloads_today.count + 1
            /\ any_pref_uses_session_sequence_no(prefs) =>
                 sequences'.session_sequence_no
                     = sequences.session_sequence_no + 1
            /\ any_pref_uses_sequence_letter_value(prefs) =>
                 sequences'.sequence_letter = sequences.sequence_letter + 1
            /\ any_pref_uses_stored_sequence_no(prefs) =>
                 prefs'.stored_sequence_no = prefs.stored_sequence_no + 1]_vars
\* C20: when process_renamed_file fails after a successful placement, the
\* FileResult of the file is still emitted, with move_succeeded true, and the
\* daemon goes on to the next request.
RenamedFileFailureLeavesResult ==
    [][(received' = received + 1 /\ last'.kind = "exception") =>
        /\ sink' = Append(sink, Msg("file", last'.id))
        /\ ~crashed']_vars
\* the problems that tell why a file failed
FailureProblems ==
    {"FILE_ALREADY_EXISTS_NO_DOWNLOAD", "DOWNLOAD_COPYING_ERROR",
     "ERROR_IN_NAME_GENERATION", "FILE_ALREADY_DOWNLOADED"}

\* C21: every FileResult of a processed file whose status is not plain
\* downloaded carries at least one problem: the identifier problem when an
\* identifier was added, a problem telling the cause when the file failed.
NoSilentOutcome ==
    (last.kind = "file"
     /\ last.rpd_file.status \in {"downloaded_with_warning", "download_failed"})
        => /\ last.rpd_file.problems # <<>>
           /\ (/\ last.rpd_file.temp = "renamed"
               /\ last.rpd_file.download_full_file_name
                      # Generated(last.rpd_file))
                  => InList("UNIQUE_IDENTIFIER_ADDED", last.rpd_file.problems)
           /\ last.rpd_file.status = "download_failed"
                  => \E i \in 1..Len(last.rpd_file.problems) :
                        last.rpd_file.problems[i] \in FailureProblems

\* a file failed on the rename of its identified name and says so
FailedIdentifierRenameReported ==
    /\ last.kind = "file"
    /\ last.rpd_file.status = "download_failed"
    /\ last.rpd_file.download_full_file_name # Generated(last.rpd_file)
    /\ last.rpd_file.download_full_base_name # <<>>
    /\ InList("DOWNLOAD_COPYING_ERROR", last.rpd_file.problems)
\* the step placed a file that consumed a fresh sequence
FreshPlacement ==
    /\ received' = received + 1
    /\ last'.kind = "file"
    /\ last'.move_succeeded
    /\ last'.rpd_file.advanced

\* the token lists active for a file reference a kind of sequence
OwnListsUse(rpd, kind) ==
    Uses(rpd.name_pref_list, kind) \/ Uses(rpd.subfolder_pref_list, kind)

\* C22: after a placement that consumes a fresh sequence, the session
\* sequence number has advanced by exactly 1 iff the token lists active for
\* that file reference it, and is unchanged otherwise; likewise the sequence
\* letter, each gated independently.
SequencesGatedByOwnLists ==
    [][FreshPlacement =>
        /\ sequences'.session_sequence_no =
               IF OwnListsUse(last'.rpd_file, "session")
               THEN sequences.session_sequence_no + 1
               ELSE sequences.session_sequence_no
        /\ sequences'.sequence_letter =
               IF OwnListsUse(last'.rpd_file, "letter")
               THEN sequences.sequence_letter + 1
               ELSE sequences.sequence_letter]_vars
\* the names <stem>_n<ext> of a file that are on disk
IdentifiedOnDisk(rpd) ==
    {n \in 1..MaxIdentifier : Identified(rpd, n) \in disk}

\* C23: under the add-identifier policy the retry loop of
\* add_unique_identifier ends: it tries the counter values after the old one
\* in turn, at most one more than there are identified names on disk, every
\* value before the last being a name on disk, and stops at the first free
\* name with a rename or with a failed file on a non-'exists' error.
IdentifierLoopEnds ==
    [][ConflictUnderAddIdentifier =>
        \E rpd \in {last'.rpd_file} :
        \E old \in {Get(duplicate_files, Generated(rpd))} :
        \E new \in {Get(duplicate_files', Generated(rpd))} :
            /\ new - old >= 1
            /\ new - old <= Cardinality(IdentifiedOnDisk(rpd)) + 1
            /\ \A n \in (old + 1)..(new - 1) : Identified(rpd, n) \in disk
            /\ Identified(rpd, new) \notin disk
            /\ rpd.download_full_file_name = Identified(rpd, new)
            /\ \/ rpd.temp = "renamed" /\ Identified(rpd, new) \in disk'
               \/ /\ rpd.status = "download_failed"
                  /\ InList("DOWNLOAD_COPYING_ERROR", rpd.problems)]_vars

\* the loop went past _1, which was on disk, and ended at _2 with a failed
\* rename
LoopEndedInFailureAfterRetry ==
    /\ last.kind = "file"
    /\ last.rpd_file.status = "download_failed"
    /\ InList("DOWNLOAD_COPYING_ERROR", last.rpd_file.problems)
    /\ last.rpd_file.download_full_base_name # <<>>
    /\ last.rpd_file.download_full_file_name = Identified(last.rpd_file, 2)
    /\ Identified(last.rpd_file, 1) \in disk
    /\ Get(duplicate_files, Generated(last.rpd_file)) = 2
(***************************************************************************)
(* The name generator alone: generate_names and the paths of move_file for *)
(* any token list a file request can carry.                                *)
(***************************************************************************)
\* tokens of a list
MaxTokens == 3

\* the tokens the lists are made of: literals (one of them the parent
\* directory), the separator, a metadata field and the job code
GeneratorTokens == {Text(<<"a">>), Text(<<DOT, DOT>>), Tok("separator"),
                    Tok("filename"), Tok("job_code")}

TokenLists(tokens) == UNION {[1..n -> tokens] : n \in 0..MaxTokens}

\* the subfolder list and the file name list of a request: one of them is
\* any list, the other one a list of the preferences
GeneratorLists ==
    {<<l, ByFilename>> : l \in TokenLists(GeneratorTokens)}
        \cup {<<Subfolder, l>> : l \in TokenLists(GeneratorTokens)}

InitNames ==
    /\ Init
    /\ prefs = CHOOSE p \in PrefChoices : TRUE

\* generate_names and, as process_file does when it succeeded, the paths
\* move_file derives from the names.  The generator keeps nothing between two
\* files: it is applied to a request in the initial state
Generate(f, metadata_ok, subfolder_pref_list, name_pref_list) ==
    /\ last.kind = "none"
    /\ \E rpd \in {[prepare_rpd_file(Self, RPDFile(f)) EXCEPT
                       !.subfolder_pref_list = subfolder_pref_list,
                       !.name_pref_list = name_pref_list]} :
       \E named \in {generate_names(Self, rpd, metadata_ok)} :
           last' = [kind |-> "generated",
                    generation_succeeded |-> named.ret,
                    rpd_file |-> IF named.ret THEN destination(named.rpd)
                                 ELSE named.rpd]
    /\ UNCHANGED <<prefs, photos, sequences, downloads_today, duplicate_files,
                   disk, dirs, crashed, receiver, sink, store, phase, sessions,
                   files_sent, received, start, placed, probe, editor>>

NextNames ==
    \E f \in Files, metadata_ok \in BOOLEAN, lists \in GeneratorLists :
        Generate(f, metadata_ok, lists[1], lists[2])

SpecNames == InitNames /\ [][NextNames]_vars

(***************************************************************************)
(* Properties of the generated names.                                      *)
(***************************************************************************)
\* the components of a path: what stands between its separators
RECURSIVE Components(_)
Components(p) ==
    IF p = <<>> THEN <<>>
    ELSE IF Head(p) = SEP THEN Components(Tail(p))
    ELSE LET n == CHOOSE n \in 1..Len(p) :
                     /\ \A i \in 1..n : p[i] # SEP
                     /\ (n = Len(p) \/ p[n + 1] = SEP)
         IN  <<SubSeq(p, 1, n)>> \o Components(SubSeq(p, n + 1, Len(p)))

\* the components of the directory an absolute path names, "." and ".."
\* resolved
RECURSIVE Resolved(_, _)
Resolved(components, seen) ==
    IF components = <<>> THEN seen
    ELSE IF Head(components) = <<DOT>> THEN Resolved(Tail(components), seen)
    ELSE IF Head(components) = <<DOT, DOT>>
         THEN Resolved(Tail(components),
                       IF seen = <<>> THEN seen
                       ELSE SubSeq(seen, 1, Len(seen) - 1))
    ELSE Resolved(Tail(components), Append(seen, Head(components)))

\* path names the folder or something below it
LiesInside(path, folder) ==
    IsPrefix(Resolved(Components(folder), <<>>),
             Resolved(Components(path), <<>>))

\* s has no leading, no trailing and no doubled separator
CleanSubfolder(s) ==
    /\ s # <<>> => s[1] # SEP /\ s[Len(s)] # SEP
    /\ \A i \in 1..(Len(s) - 1) : ~(s[i] = SEP /\ s[i + 1] = SEP)

\* C24 as stated: the generated subfolder neither starts nor ends with the
\* separator nor doubles it, and so the path move_file joins from the
\* download folder and the subfolder lies inside the download folder
SubfolderStaysInsideDownloadFolder ==
    last.kind = "generated" /\ last.rpd_file.generated =>
        /\ CleanSubfolder(last.rpd_file.download_subfolder)
        /\ last.generation_succeeded =>
               LiesInside(last.rpd_file.download_path,
                          last.rpd_file.download_folder)

\* C24: the generated subfolder neither starts nor ends with the separator
\* nor doubles it; the path move_file joins is the download folder, a
\* separator and the subfolder, and it lies inside the download folder
\* whenever no component of the subfolder is the parent directory ".."
SubfolderAppendedToDownloadFolder ==
    last.kind = "generated" /\ last.rpd_file.generated =>
        /\ CleanSubfolder(last.rpd_file.download_subfolder)
        /\ last.generation_succeeded =>
               /\ last.rpd_file.download_path =
                      last.rpd_file.download_folder \o <<SEP>>
                          \o last.rpd_file.download_subfolder
               /\ (~InList(<<DOT, DOT>>,
                           Components(last.rpd_file.download_subfolder))
                     => LiesInside(last.rpd_file.download_path,
                                   last.rpd_file.download_folder))

\* a subfolder list that starts and ends with a separator around the parent
\* directory was generated and led out of the download folder
SeparatorsStrippedAroundParentDirectory ==
    /\ last.kind = "generated"
    /\ last.generation_succeeded
    /\ last.rpd_file.subfolder_pref_list
           = <<Tok("separator"), Text(<<DOT, DOT>>), Tok("separator")>>
    /\ last.rpd_file.download_subfolder = <<DOT, DOT>>
    /\ last.rpd_file.download_path = <<SEP, "p", SEP, DOT, DOT>>

\* every token of the list is a Text token
TextOnly(tokens) == \A i \in 1..Len(tokens) : tokens[i].kind = "text"

\* the literals of the tokens, in list order
Literals(tokens) == [i \in 1..Len(tokens) |-> tokens[i].text]

\* C25: a list made only of Text tokens generates the concatenation of its
\* literals in list order, one part per token: the subfolder whenever
\* generate_subfolder ran, the file name whenever generate_name ran
TextListsGenerateTheirLiterals ==
    last.kind = "generated" =>
        \E rpd \in {last.rpd_file} :
            /\ rpd.generated /\ TextOnly(rpd.subfolder_pref_list) =>
                   /\ rpd.download_subfolder
                          = Concat(Literals(rpd.subfolder_pref_list))
                   /\ Len(Literals(rpd.subfolder_pref_list))
                          = Len(rpd.subfolder_pref_list)
            /\ rpd.download_subfolder # <<>> /\ TextOnly(rpd.name_pref_list) =>
                   rpd.download_name = Concat(Literals(rpd.name_pref_list))

(***************************************************************************)
(* The name editor (src/raphodo/nameeditor.py): PrefEditor holds the text  *)
(* the user types, PrefDialog shows an example name and one message.       *)
(* The text is a sequence of characters and of preference values (<...>),  *)
(* a preference value being the token it stands for.                       *)
(***************************************************************************)
\* characters and preference values of the text
MaxDocument == 3

Character(c) == [kind |-> "character", text |-> <<c>>]
IsCharacter(item) == item.kind = "character"

DocumentItems == {Character("a"), Character(SEP), Tok("job_code"),
                  Tok("camera_model"), Tok("session")}

Documents == UNION {[1..n -> DocumentItems] : n \in 0..MaxDocument}

\* text_fragment.split(os.sep)
RECURSIVE split(_, _)
split(text_fragment, fragment) ==
    IF text_fragment = <<>> THEN <<fragment>>
    ELSE IF Head(text_fragment) = SEP
         THEN <<fragment>> \o split(Tail(text_fragment), <<>>)
    ELSE split(Tail(text_fragment), Append(fragment, Head(text_fragment)))

\* the loop of PrefEditor._parseTextFragment over the fragments
RECURSIVE FragmentTokens(_)
FragmentTokens(text_fragments) ==
    IF text_fragments = <<>> THEN <<>>
    ELSE (IF Head(text_fragments) # <<>>
          THEN <<Text(Head(text_fragments))>> ELSE <<>>)
         \o (IF Len(text_fragments) > 1 THEN <<Tok("separator")>> ELSE <<>>)
         \o FragmentTokens(Tail(text_fragments))

\* PrefEditor._parseTextFragment
parseTextFragment(subfolder, text_fragment) ==
    IF subfolder THEN FragmentTokens(split(text_fragment, <<>>))
    ELSE <<Text(text_fragment)>>

\* PrefEditor.generatePrefList: text_fragment is the text since the last
\* preference value, first holds until a preference value was met.  The text
\* before the first and after the last preference value is parsed if there
\* is any, the text between two preference values always
RECURSIVE PrefList(_, _, _, _)
PrefList(subfolder, document, text_fragment, first) ==
    IF document = <<>>
    THEN IF text_fragment # <<>>
         THEN parseTextFragment(subfolder, text_fragment) ELSE <<>>
    ELSE IF IsCharacter(Head(document))
         THEN PrefList(subfolder, Tail(document),
                       text_fragment \o Head(document).text, first)
    ELSE (IF first /\ text_fragment = <<>> THEN <<>>
          ELSE parseTextFragment(subfolder, text_fragment))
         \o <<Head(document)>>
         \o PrefList(subfolder, Tail(document), <<>>, FALSE)

generatePrefList(subfolder, document) ==
    PrefList(subfolder, document, <<>>, TRUE)

\* generatenameconfig.filter_subfolder_prefs: leading, trailing and doubled
\* separators are taken out of a copy of the list
RECURSIVE filter_subfolder_prefs(_)
filter_subfolder_prefs(pref_list) ==
    IF pref_list = <<>> THEN pref_list
    ELSE IF Head(pref_list).kind = "separator"
         THEN filter_subfolder_prefs(Tail(pref_list))
    ELSE IF pref_list[Len(pref_list)].kind = "separator"
         THEN filter_subfolder_prefs(SubSeq(pref_list, 1, Len(pref_list) - 1))
    ELSE IF \E i \in 1..(Len(pref_list) - 1) :
                /\ pref_list[i].kind = "separator"
                /\ pref_list[i + 1].kind = "separator"
         THEN LET i == CHOOSE i \in 1..(Len(pref_list) - 1) :
                           /\ pref_list[i].kind = "separator"
                           /\ pref_list[i + 1].kind = "separator"
              IN  filter_subfolder_prefs(SubSeq(pref_list, 1, i - 1)
                                         \o SubSeq(pref_list, i + 1,
                                                   Len(pref_list)))
    ELSE pref_list

\* the pages of messageWidget
BlankMessage == 0
WarningMessage == 1
\* subfolders: the separator creates subfolder levels; file names: sequences
\* make file names unique
UseHint == 2
\* subfolders: no need to start or finish with the separator
PointlessSeparatorHint == 3

\* user_pref_list.index(SEQUENCES) finds a value
UsesSequences(pref_list) ==
    \E kind \in {"downloads_today", "stored", "session", "letter"} :
        Uses(pref_list, kind)

\* Hint as it would be if the first token alone were looked at
HintOfFirstToken(is_subfolder, user_pref_list) ==
    IF is_subfolder
    THEN IF user_pref_list # <<>>
         THEN IF ~Uses(user_pref_list, "separator") THEN UseHint
              ELSE IF user_pref_list[1].kind = "separator"
                   THEN PointlessSeparatorHint
              ELSE BlankMessage
         ELSE UseHint
    ELSE IF ~UsesSequences(user_pref_list) THEN UseHint ELSE BlankMessage

\* the page updateExampleFilename chooses before the name is generated
Hint(is_subfolder, user_pref_list) ==
    IF is_subfolder
    THEN IF user_pref_list # <<>>
         THEN IF ~Uses(user_pref_list, "separator") THEN UseHint
              ELSE IF \/ user_pref_list[1].kind = "separator"
                      \/ user_pref_list[Len(user_pref_list)].kind = "separator"
                   THEN PointlessSeparatorHint
              ELSE BlankMessage
         ELSE UseHint
    ELSE IF ~UsesSequences(user_pref_list) THEN UseHint ELSE BlankMessage

\* the sample file of the dialog: SamplePhoto, or a file of the user whose
\* metadata has no camera model; the job code is never missing
SampleFiles ==
    {[name |-> A_JPG, job_code |-> <<"J">>, camera_model |-> model] :
        model \in {<<"C">>, <<>>}}

\* the list the example is generated from
ExampleList(d) ==
    IF d.is_subfolder THEN filter_subfolder_prefs(d.user_pref_list)
    ELSE d.user_pref_list

\* PrefDialog.showExample (the text is not elided): the page of the
\* warning replaces the hint when generating the name recorded a problem
showExample(d, name_parts, has_problem) ==
    [d EXCEPT
       !.name_parts = name_parts,
       !.example = IF d.is_subfolder THEN StripSep(Collapse(Concat(name_parts)))
                   ELSE Concat(name_parts),
       !.message = IF has_problem THEN WarningMessage ELSE @]

\* PrefDialog.updateExampleFilename; the dialog has its own Sequences
updateExampleFilename(d, own_sequences, today) ==
    showExample([d EXCEPT !.message = Hint(d.is_subfolder, d.user_pref_list)],
                Parts(ExampleList(d), d.sample_rpd_file, own_sequences, today),
                Problems(ExampleList(d), d.sample_rpd_file, own_sequences)
                    # <<>>)

\* PrefDialog.getPrefList
getPrefList(d) == d.user_pref_list

\* the text changed: generatePrefList emits prefListGenerated, which is
\* connected to updateExampleFilename
TextChanged(d, document) ==
    updateExampleFilename(
        [d EXCEPT !.document = document,
                  !.user_pref_list = generatePrefList(d.is_subfolder, document)],
        Sequences(prefs.stored_sequence_no), prefs.downloads_today)

\* PrefDialog.__init__ up to the display of the preference list it was given
OpenDialog(is_subfolder, sample_rpd_file, document) ==
    /\ ~editor.open
    /\ editor' = TextChanged([open |-> TRUE, is_subfolder |-> is_subfolder,
                              sample_rpd_file |-> sample_rpd_file,
                              document |-> <<>>, user_pref_list |-> <<>>,
                              message |-> BlankMessage, name_parts |-> <<>>,
                              example |-> <<>>],
                             document)
    /\ UNCHANGED <<prefs, photos, sequences, downloads_today, duplicate_files,
                   disk, dirs, crashed, receiver, sink, store, phase, sessions,
                   files_sent, received, last, start, placed, probe>>

\* the user edits the text
EditText(document) ==
    /\ editor.open
    /\ editor' = TextChanged(editor, document)
    /\ UNCHANGED <<prefs, photos, sequences, downloads_today, duplicate_files,
                   disk, dirs, crashed, receiver, sink, store, phase, sessions,
                   files_sent, received, last, start, placed, probe>>

NextEditor ==
    \/ \E is_subfolder \in BOOLEAN, sample_rpd_file \in SampleFiles,
          document \in Documents :
            OpenDialog(is_subfolder, sample_rpd_file, document)
    \/ \E document \in Documents : EditText(document)

SpecEditor == InitNames /\ [][NextEditor]_vars

(***************************************************************************)
(* Properties of the name editor.                                          *)
(***************************************************************************)
\* the first or the last token of the list is a separator
SeparatorAtAnEnd(pref_list) ==
    /\ pref_list # <<>>
    /\ \/ pref_list[1].kind = "separator"
       \/ pref_list[Len(pref_list)].kind = "separator"

\* the list is taken as it is and its name is shown: getPrefList returns the
\* list of the text, and the example is the subfolder the generator makes of
\* that list for the sample file
ListAccepted(d) ==
    /\ getPrefList(d) = generatePrefList(d.is_subfolder, d.document)
    /\ d.example = SubfolderGenerate(getPrefList(d), d.sample_rpd_file,
                                     Sequences(prefs.stored_sequence_no),
                                     prefs.downloads_today)

\* the page the claim gives a subfolder list
HintPage(pref_list) ==
    IF SeparatorAtAnEnd(pref_list) THEN PointlessSeparatorHint
    ELSE IF Uses(pref_list, "separator") THEN BlankMessage
    ELSE UseHint

\* generating the example recorded a problem for the sample file
ExampleHasProblem(d) ==
    Problems(getPrefList(d), d.sample_rpd_file,
             Sequences(prefs.stored_sequence_no)) # <<>>

MoveSucceededTellsStatus ==
    last.kind = "file" /\ last.rpd_file.status # "download_pending" =>
        /\ last.move_succeeded <=>
               last.rpd_file.status \in {"downloaded",
                                         "downloaded_with_warning"}
        /\ ~last.move_succeeded <=> last.rpd_file.status = "download_failed"
        /\ ~last.move_succeeded => last.rpd_file.temp # "renamed"

\* C28: no step of a placement renames a file onto a path where a file
\* already was: not the primary file, not its thumbnail, audio or XMP
\* sidecar (os.rename replaces the file at its destination)
NoExistingFileReplaced ==
    [][received' = received + 1 /\ last'.kind \in {"file", "exception"} =>
          \E rpd \in {last'.rpd_file} :
              /\ rpd.temp = "renamed" => rpd.download_full_file_name \notin disk
              /\ rpd.thm = "renamed" => rpd.download_thm_full_name \notin disk
              /\ rpd.audio = "renamed"
                     => rpd.download_audio_full_name \notin disk
              /\ rpd.xmp = "renamed"
                     => rpd.download_xmp_full_name \notin disk]_vars

\* C29: when another writer creates the destination between the existence
\* check and the rename, its file is not replaced and the request is handled
\* as a conflict: the file fails as existing or is placed elsewhere
RacingWriterHandledAsConflict ==
    last.kind = "file" => ~last.rpd_file.replaced

\* C30: with RAW + JPEG synchronisation, whenever the names of a photo are
\* generated the matched slot of the sequences holds what the tracker
\* answered for that photo: the sequence number of the entry for a matching
\* pair or an already downloaded file, None otherwise
MatchedSlotIsTheTrackerAnswer ==
    [][/\ received' = received + 1
       /\ last'.kind \in {"file", "exception"}
       /\ prefs.synchronize_raw_jpg
       /\ last'.rpd_file.file_type = "photo"
       /\ last'.rpd_file.generated
       => sequences'.matched =
              matching_pair(photos, splitext(last'.rpd_file.name)[1],
                            splitext(last'.rpd_file.name)[2],
                            last'.rpd_file.dt,
                            last'.rpd_file.ss).sequence_number]_vars

(***************************************************************************)
(* Properties of the session's counts and of the results (continued).      *)
(***************************************************************************)
\* the files of the session that were renamed to a destination and did not
\* reuse the sequence of a RAW + JPEG counterpart: without synchronisation
\* and for videos every placed file, with it the photos that advanced the
\* sequences
PlacedWithFreshSequence ==
    {i \in 1..Len(placed) : \/ placed[i].advanced
                            \/ ~prefs.synchronize_raw_jpg
                            \/ placed[i].file_type = "video"}

\* C31: the downloads_today count of the SessionResult is the count after
\* the roll at the session's start plus the number of files placed with a
\* fresh sequence during the session
SessionResultCountsPlacedFiles ==
    last.kind = "download_completed" =>
        last.downloads_today.count =
            start.downloads_today.count + Cardinality(PlacedWithFreshSequence)

\* C32: a file request whose download_succeeded flag is false is answered
\* with move_succeeded false and without thumbnail, and leaves the sequence
\* counters, downloads_today, the tracker, the identifier counters, the
\* temp file and the destination folders as they were
FailedDownloadOnlyAnswered ==
    [][received' = received + 1 /\ last'.kind = "file"
          /\ ~last'.download_succeeded =>
              /\ ~last'.move_succeeded
              /\ ~last'.renamed_file_processed
              /\ last'.rpd_file \in {RPDFile(f) : f \in Files}
              /\ sink' = Append(sink, Msg("file", last'.id))
              /\ UNCHANGED <<prefs, photos, sequences, downloads_today,
                             duplicate_files, disk, dirs, placed>>]_vars

\* a request that was not downloaded was answered in a session that had
\* placed a file and advanced the counts
FailedDownloadAnsweredAfterPlacement ==
    /\ last.kind = "file"
    /\ ~last.download_succeeded
    /\ placed # <<>>
    /\ downloads_today.count > start.downloads_today.count
    /\ last.rpd_file.temp = "present"

\* C33: the sidecar destination paths of a result name sidecars that were
\* moved there: a path is set iff the rename of that sidecar succeeded
SidecarPathsNameMovedSidecars ==
    last.kind \in {"file", "exception"} =>
        \E rpd \in {last.rpd_file} :
            /\ rpd.download_thm_full_name # <<>> <=> rpd.thm = "renamed"
            /\ rpd.download_audio_full_name # <<>> <=> rpd.audio = "renamed"
            /\ rpd.download_xmp_full_name # <<>> <=> rpd.xmp = "renamed"

(***************************************************************************)
(* The presets of the dialog: PresetComboBox and the handlers of           *)
(* PrefDialog that keep preset_names and preset_pref_lists.  The dialog    *)
(* record of the editor gains the fields of the combo box (items,          *)
(* currentIndex, preset_separator, new_preset, preset_edited), the cached  *)
(* presets and current_custom_name (<<>> is None, else <<name>>); raised   *)
(* names the exception that ended a handler, saved is the list each name   *)
(* was last saved under.  Rows and indexes count from 0 as in the code.    *)
(* prefs.set_preset is called with the cached lists on every change of     *)
(* them and is not kept apart.                                             *)
(***************************************************************************)
MaxPresets == 3

\* the names the user gives to presets
PresetNames == {<<"x", "y", "z", "w">>[i] : i \in 1..MaxPresets}

NoException == "none"
Raise(d, exception) ==
    IF d.raised = NoException THEN [d EXCEPT !.raised = exception] ELSE d

\* PHOTO_SUBFOLDER_MENU_DEFAULTS_CONV and the menu entries made of
\* PHOTO_SUBFOLDER_MENU_DEFAULTS
builtin_pref_lists ==
    << <<Tok("job_code")>>,
       <<Tok("job_code"), Tok("separator"), Tok("camera_model")>> >>
builtin_pref_names == <<"Job Code - J", "Job Code - J/C">>

Item(text, data) == [text |-> text, data |-> data, enabled |-> TRUE]
Separator == Item("", "separator")

\* QComboBox.insertItem: the current index stays on its item; the first
\* item of an empty box becomes the current one
insertItem(d, index, item) ==
    LET at == IF index > Len(d.items) THEN Len(d.items)
              ELSE IF index < 0 THEN 0 ELSE index
    IN  [d EXCEPT
           !.items = SubSeq(@, 1, at) \o <<item>> \o SubSeq(@, at + 1, Len(@)),
           !.currentIndex = IF d.items = <<>> THEN 0
                            ELSE IF at <= @ THEN @ + 1 ELSE @]

\* QComboBox.removeItem: nothing for a row that does not exist; when the
\* current item goes, the row keeps being current if there still is one
removeItem(d, index) ==
    IF index < 0 \/ index >= Len(d.items) THEN d
    ELSE [d EXCEPT
            !.items = SubSeq(@, 1, index) \o SubSeq(@, index + 2, Len(@)),
            !.currentIndex =
                IF index < @ THEN @ - 1
                ELSE IF index = @ /\ @ > Len(d.items) - 2
                     THEN Len(d.items) - 2
                ELSE @]

\* QComboBox.setCurrentIndex, currentText, currentData, findText
setCurrentIndex(d, index) ==
    [d EXCEPT !.currentIndex =
                  IF index >= 0 /\ index < Len(d.items) THEN index ELSE -1]
currentText(d) ==
    IF d.currentIndex >= 0 THEN d.items[d.currentIndex + 1].text ELSE ""
currentData(d) ==
    IF d.currentIndex >= 0 THEN d.items[d.currentIndex + 1].data ELSE "None"
findText(d, text) ==
    IF \E i \in 1..Len(d.items) : d.items[i].text = text
    THEN (CHOOSE i \in 1..Len(d.items) :
              /\ d.items[i].text = text
              /\ \A j \in 1..(i - 1) : d.items[j].text # text) - 1
    ELSE -1

\* list.index of Python counted from 0, -1 where Python raises ValueError
IndexOf(list, x) ==
    IF InList(x, list)
    THEN (CHOOSE i \in 1..Len(list) :
              list[i] = x /\ \A j \in 1..(i - 1) : list[j] # x) - 1
    ELSE -1

\* PresetComboBox.setRemoveAllCustomEnabled
setRemoveAllCustomEnabled(d, enabled) ==
    LET row == IF d.preset_edited THEN Len(d.items) - 2 ELSE Len(d.items) - 1
    IN  IF d.raised # NoException THEN d
        ELSE IF row < 0 THEN Raise(d, "AttributeError")
        ELSE [d EXCEPT !.items[row + 1].enabled = enabled]

\* the items added by a loop of PresetComboBox.__init__
RECURSIVE addItems(_, _, _)
addItems(d, texts, data) ==
    IF texts = <<>> THEN d
    ELSE addItems(insertItem(d, Len(d.items), Item(Head(texts), data)),
                  Tail(texts), data)

\* PresetComboBox.__init__: builtin_presets is set for the two kinds of
\* subfolder presets only, the loop over it raises for the others
PresetComboBox(d, preset_names) ==
    IF ~d.is_subfolder THEN Raise(d, "AttributeError")
    ELSE LET builtin ==
                 addItems([d EXCEPT !.preset_edited = FALSE,
                                    !.new_preset = FALSE,
                                    !.items = <<>>, !.currentIndex = -1,
                                    !.preset_separator = preset_names # <<>>],
                          builtin_pref_names, "builtin")
             custom == IF preset_names = <<>> THEN builtin
                       ELSE addItems(insertItem(builtin, Len(builtin.items),
                                                Separator),
                                     preset_names, "custom")
             actions == addItems(addItems(insertItem(custom, Len(custom.items),
                                                     Separator),
                                          <<"Save New Custom Preset...">>,
                                          "new_preset"),
                                 <<"Remove All Custom Presets...">>,
                                 "remove_all")
         IN  setRemoveAllCustomEnabled(actions, preset_names # <<>>)

\* PresetComboBox.resetPresetList
resetPresetList(d) ==
    IF d.raised # NoException THEN d
    ELSE IF ~(d.new_preset \/ d.preset_edited)
         THEN Raise(d, "AssertionError in resetPresetList")
    ELSE LET top == removeItem(removeItem(d, 0), 0)
             all == IF d.preset_edited
                    THEN removeItem(top, Len(top.items) - 1) ELSE top
         IN  [all EXCEPT !.preset_edited = FALSE, !.new_preset = FALSE]

\* PresetComboBox.addCustomPreset
addCustomPreset(d, text) ==
    IF d.raised # NoException THEN d
    ELSE LET separated ==
                 IF ~d.preset_separator
                 THEN [insertItem(d, Len(builtin_pref_names), Separator)
                          EXCEPT !.preset_separator = TRUE]
                 ELSE d
             reset == IF d.new_preset \/ d.preset_edited
                      THEN resetPresetList(separated) ELSE separated
             idx == Len(builtin_pref_names) + 1
         IN  setCurrentIndex(insertItem(reset, idx, Item(text, "custom")), idx)

\* the loop of PresetComboBox.removeAllCustomPresets, from row down to first_row
RECURSIVE removeRows(_, _, _)
removeRows(d, row, first_row) ==
    IF row < first_row THEN d ELSE removeRows(removeItem(d, row), row - 1, first_row)

\* PresetComboBox.removeAllCustomPresets
removeAllCustomPresets(d, no_presets) ==
    IF d.raised # NoException THEN d
    ELSE IF ~d.preset_separator
         THEN Raise(d, "AssertionError in removeAllCustomPresets")
    ELSE LET first_row == Len(builtin_pref_names)
                      + (IF d.new_preset \/ d.preset_edited THEN 2 ELSE 0)
         IN  removeRows(d, first_row + no_presets, first_row)

\* PresetComboBox.setPresetNew
setPresetNew(d) ==
    IF d.raised # NoException THEN d
    ELSE IF d.preset_edited THEN Raise(d, "AssertionError in setPresetNew")
    ELSE IF d.new_preset THEN d
    ELSE setCurrentIndex(
             insertItem(insertItem([d EXCEPT !.new_preset = TRUE], 0,
                                   Item("(New Custom Preset)", "edited")),
                        1, Separator),
             0)

\* PresetComboBox.setPresetEdited
setPresetEdited(d, text) ==
    IF d.raised # NoException THEN d
    ELSE IF d.new_preset \/ d.preset_edited
         THEN Raise(d, "AssertionError in setPresetEdited")
    ELSE LET top == insertItem(insertItem(d, 0, Item(text \o " (edited)",
                                                     "edited")),
                               1, Separator)
             update == insertItem(top, Len(top.items),
                                  Item("Update Custom Preset " \o text,
                                       "update_preset"))
         IN  setCurrentIndex([update EXCEPT !.preset_edited = TRUE], 0)

\* preferences.match_pref_list: the index of the first list equal to the
\* user's, -1 if there is none
match_pref_list(pref_lists, user_pref_list) == IndexOf(pref_lists, user_pref_list)

\* PrefDialog._updateCombinedPrefs, which every change of the presets calls
combined_pref_names(d) == builtin_pref_names \o d.preset_names
combined_pref_lists(d) == builtin_pref_lists \o d.preset_pref_lists

\* PrefDialog.getPresetMatch
getPresetMatch(d) ==
    LET index == match_pref_list(combined_pref_lists(d), d.user_pref_list)
    IN  IF index >= 0
        THEN <<findText(d, combined_pref_names(d)[index + 1]), index>>
        ELSE <<-1, -1>>

\* updateComboBoxCurrentIndex as it would be if the entry of a new or edited
\* preset were added without looking at the flags
updateComboBoxCurrentIndexUnguarded(d) ==
    IF d.raised # NoException THEN d
    ELSE LET match == getPresetMatch(d)
             current == setCurrentIndex(d, match[1])
             reset == IF d.preset_edited \/ d.new_preset
                      THEN resetPresetList(current) ELSE current
         IN  IF match[2] >= 0
             THEN [reset EXCEPT !.current_custom_name =
                                    IF match[2] >= Len(builtin_pref_names)
                                    THEN <<currentText(reset)>> ELSE <<>>]
             ELSE IF d.current_custom_name = <<>> THEN setPresetNew(d)
             ELSE setPresetEdited(d, d.current_custom_name[1])

\* PrefDialog.updateComboBoxCurrentIndex
updateComboBoxCurrentIndex(d) ==
    IF d.raised # NoException THEN d
    ELSE LET match == getPresetMatch(d)
             current == setCurrentIndex(d, match[1])
             reset == IF d.preset_edited \/ d.new_preset
                      THEN resetPresetList(current) ELSE current
         IN  IF match[2] >= 0
             THEN [reset EXCEPT !.current_custom_name =
                                    IF match[2] >= Len(builtin_pref_names)
                                    THEN <<currentText(reset)>> ELSE <<>>]
             ELSE IF ~(d.new_preset \/ d.preset_edited)
                  THEN IF d.current_custom_name = <<>> THEN setPresetNew(d)
                       ELSE setPresetEdited(d, d.current_custom_name[1])
             ELSE setCurrentIndex(d, 0)

\* PrefEditor.displayPrefList: the text of a preference value for a token of
\* pref_mapper, os.sep for a separator, else the literal of the text
RECURSIVE displayPrefList(_)
displayPrefList(pref_list) ==
    IF pref_list = <<>> THEN <<>>
    ELSE (IF Head(pref_list).kind = "separator" THEN <<Character(SEP)>>
          ELSE IF Head(pref_list).kind = "text"
               THEN [i \in 1..Len(Head(pref_list).text) |->
                         Character(Head(pref_list).text[i])]
          ELSE <<Head(pref_list)>>)
         \o displayPrefList(Tail(pref_list))

\* the text changed in a dialog with presets: updateExampleFilename ends
\* with updateComboBoxCurrentIndex
presetTextChanged(d, document) ==
    updateComboBoxCurrentIndex(TextChanged(d, document))

\* movePresetToFront as it would be if only the name were moved
movePresetNameToFront(d, index) ==
    IF d.raised # NoException \/ index = 0 THEN d
    ELSE LET n == Len(d.preset_names)
             at == IF index < 0 THEN index + n ELSE index
         IN  IF at < 0 \/ at >= n THEN Raise(d, "IndexError")
             ELSE [d EXCEPT
                     !.preset_names = <<@[at + 1]>> \o SubSeq(@, 1, at)
                                          \o SubSeq(@, at + 2, n)]

\* PrefDialog.movePresetToFront; list.pop counts a negative index from the
\* end of the list
movePresetToFront(d, index) ==
    IF d.raised # NoException \/ index = 0 THEN d
    ELSE LET n == Len(d.preset_names)
             at == IF index < 0 THEN index + n ELSE index
         IN  IF at < 0 \/ at >= n THEN Raise(d, "IndexError")
             ELSE [d EXCEPT
                     !.preset_names = <<@[at + 1]>> \o SubSeq(@, 1, at)
                                          \o SubSeq(@, at + 2, n),
                     !.preset_pref_lists = <<@[at + 1]>> \o SubSeq(@, 1, at)
                                               \o SubSeq(@, at + 2, n)]

\* PrefDialog.updateExistingPreset
updateExistingPreset(d) ==
    IF d.raised # NoException THEN d
    ELSE LET index == IF d.current_custom_name = <<>> THEN -1
                      ELSE IndexOf(d.preset_names, d.current_custom_name[1])
         IN  IF index < 0 THEN Raise(d, "ValueError")
             ELSE movePresetToFront(
                      [d EXCEPT
                         !.preset_pref_lists[index + 1] = d.user_pref_list,
                         !.saved[d.current_custom_name[1]] = d.user_pref_list],
                      index)

\* PrefDialog.saveNewPreset
saveNewPreset(d, preset_name) ==
    IF d.raised # NoException THEN d
    ELSE [d EXCEPT !.preset_names = <<preset_name>> \o @,
                   !.preset_pref_lists = <<d.user_pref_list>> \o @,
                   !.saved[preset_name] = d.user_pref_list]

\* PrefDialog.clearCustomPresets
clearCustomPresets(d) ==
    IF d.raised # NoException THEN d
    ELSE [d EXCEPT !.preset_names = <<>>, !.preset_pref_lists = <<>>,
                   !.current_custom_name = <<>>,
                   !.saved = [name \in PresetNames |-> <<>>]]

\* PrefDialog.presetComboItemActivated for the item the combo box made
\* current; created is the name CreatePreset was left with, <<>> when the
\* user cancelled it
presetComboItemActivated(d, created) ==
    LET preset_class == currentData(d)
        index == IndexOf(combined_pref_names(d), currentText(d))
    IN  IF preset_class = "new_preset"
        THEN IF created # <<>>
             THEN LET saved == saveNewPreset(
                                   addCustomPreset(
                                       [d EXCEPT !.current_custom_name = created],
                                       created[1]),
                                   created[1])
                  IN  IF Len(saved.preset_names) = 1
                      THEN setRemoveAllCustomEnabled(saved, TRUE) ELSE saved
             ELSE updateComboBoxCurrentIndex(d)
        ELSE IF preset_class \in {"builtin", "custom"}
        THEN IF index < 0 THEN Raise(d, "ValueError")
             ELSE LET shown == presetTextChanged(
                                   d, displayPrefList(
                                          combined_pref_lists(d)[index + 1]))
                  IN  IF index >= Len(builtin_pref_names)
                      THEN movePresetToFront(shown,
                                             Len(builtin_pref_names) - index)
                      ELSE shown
        ELSE IF preset_class = "remove_all"
        THEN updateComboBoxCurrentIndex(
                 setRemoveAllCustomEnabled(
                     clearCustomPresets(
                         removeAllCustomPresets(d, Len(d.preset_names))),
                     FALSE))
        ELSE IF preset_class = "update_preset"
        THEN updateComboBoxCurrentIndex(updateExistingPreset(d))
        ELSE d

\* the dialog after QDialog.accept or QDialog.reject: the preferences hold
\* the presets, getPrefList tells the list of the user, the widgets are gone
Closed(d) ==
    [d EXCEPT !.open = FALSE, !.document = <<>>, !.items = <<>>,
              !.currentIndex = -1, !.current_custom_name = <<>>,
              !.preset_separator = FALSE, !.new_preset = FALSE,
              !.preset_edited = FALSE, !.message = BlankMessage,
              !.name_parts = <<>>, !.example = <<>>]

\* PrefDialog.accept: choice is the button of the message box, created the
\* name CreatePreset was left with
accept(d, choice, created) ==
    LET save_new == IF d.new_preset THEN choice = "Yes" ELSE choice = "Save New"
        update == ~d.new_preset /\ choice = "Update"
        done == IF ~(d.preset_edited \/ d.new_preset) THEN d
                ELSE IF save_new
                     THEN IF created # <<>> THEN saveNewPreset(d, created[1])
                          ELSE d
                ELSE IF update THEN updateExistingPreset(d)
                ELSE d
    IN  IF done.raised # NoException THEN done ELSE Closed(done)

\* the presets of the preferences when the dialog opens: none, or one of
\* each name
InitialPresets ==
    {[names |-> [i \in 1..n |-> <<"x", "y", "z", "w">>[i]],
      lists |-> [i \in 1..n |-> IF i = 1 THEN <<Tok("session")>>
                                ELSE IF i = 2 THEN <<Text(<<"a">>)>>
                                ELSE <<Tok("camera_model")>>]] :
        n \in {0, MaxPresets}}

\* the texts the user of the dialog with presets writes
PresetDocuments ==
    {displayPrefList(builtin_pref_lists[1]), <<Tok("session")>>,
     <<Character("a")>>}

\* the names CreatePreset can be left with: the save button is enabled for
\* a name that is not empty and not in existing_custom_names
CreatePreset(existing_custom_names) ==
    {<<>>} \cup {<<name>> : name \in
                     {n \in PresetNames : ~InList(n, existing_custom_names)}}

\* PrefDialog.__init__ of a dialog with presets
OpenPresets(is_subfolder, sample_rpd_file, presets, document) ==
    /\ ~editor.open
    /\ \E d \in {PresetComboBox(
                     [open |-> FALSE, is_subfolder |-> is_subfolder,
                      sample_rpd_file |-> sample_rpd_file,
                      document |-> <<>>, user_pref_list |-> <<>>,
                      message |-> BlankMessage, name_parts |-> <<>>,
                      example |-> <<>>, preset_names |-> presets.names,
                      preset_pref_lists |-> presets.lists,
                      current_custom_name |-> <<>>, items |-> <<>>,
                      currentIndex |-> -1, preset_separator |-> FALSE,
                      new_preset |-> FALSE, preset_edited |-> FALSE,
                      raised |-> NoException,
                      saved |-> [name \in PresetNames |->
                                     IF InList(name, presets.names)
                                     THEN presets.lists[
                                              IndexOf(presets.names, name) + 1]
                                     ELSE <<>>]],
                     presets.names)} :
          editor' = IF d.raised # NoException THEN d
                    ELSE presetTextChanged([d EXCEPT !.open = TRUE], document)
    /\ UNCHANGED <<prefs, photos, sequences, downloads_today, duplicate_files,
                   disk, dirs, crashed, receiver, sink, store, phase, sessions,
                   files_sent, received, last, start, placed, probe>>

\* the user edits the text
EditPresetText(document) ==
    /\ editor.open /\ editor.raised = NoException
    /\ editor' = presetTextChanged(editor, document)
    /\ UNCHANGED <<prefs, photos, sequences, downloads_today, duplicate_files,
                   disk, dirs, crashed, receiver, sink, store, phase, sessions,
                   files_sent, received, last, start, placed, probe>>

\* the user activates an item of the combo box, which makes it the current
\* one; separators and disabled items cannot be activated
Activate(index, created) ==
    /\ editor.open /\ editor.raised = NoException
    /\ index < Len(editor.items)
    /\ editor.items[index + 1].enabled
    /\ editor.items[index + 1].data # "separator"
    /\ created \in (IF editor.items[index + 1].data = "new_preset"
                       /\ Len(editor.preset_names) < MaxPresets
                    THEN CreatePreset(editor.preset_names) ELSE {<<>>})
    /\ editor' = presetComboItemActivated(setCurrentIndex(editor, index),
                                          created)
    /\ UNCHANGED <<prefs, photos, sequences, downloads_today, duplicate_files,
                   disk, dirs, crashed, receiver, sink, store, phase, sessions,
                   files_sent, received, last, start, placed, probe>>

\* the user presses the Ok button and answers the message box
Accept(choice, created) ==
    /\ editor.open /\ editor.raised = NoException
    /\ choice \in (IF editor.new_preset THEN {"Yes", "No"}
                   ELSE IF editor.preset_edited
                        THEN {"Update", "Save New", "No"}
                   ELSE {"No"})
    /\ created \in (IF choice \in {"Yes", "Save New"}
                       /\ Len(editor.preset_names) < MaxPresets
                    THEN CreatePreset(editor.preset_names) ELSE {<<>>})
    /\ editor' = accept(editor, choice, created)
    /\ UNCHANGED <<prefs, photos, sequences, downloads_today, duplicate_files,
                   disk, dirs, crashed, receiver, sink, store, phase, sessions,
                   files_sent, received, last, start, placed, probe>>

\* the user presses the Cancel button: QDialog.reject closes the dialog
Reject ==
    /\ editor.open /\ editor.raised = NoException
    /\ editor' = Closed(editor)
    /\ UNCHANGED <<prefs, photos, sequences, downloads_today, duplicate_files,
                   disk, dirs, crashed, receiver, sink, store, phase, sessions,
                   files_sent, received, last, start, placed, probe>>

NextPresets ==
    \/ \E is_subfolder \in BOOLEAN, presets \in InitialPresets,
          document \in PresetDocuments :
            OpenPresets(is_subfolder, CHOOSE f \in SampleFiles : f.camera_model # <<>>,
                        presets, document)
    \/ \E document \in PresetDocuments : EditPresetText(document)
    \/ \E index \in 0..(MaxPresets + 8), created \in CreatePreset(<<>>) :
            Activate(index, created)
    \/ \E choice \in {"Yes", "No", "Update", "Save New"},
          created \in CreatePreset(<<>>) : Accept(choice, created)
    \/ Reject

SpecPresets == InitNames /\ [][NextPresets]_vars

(***************************************************************************)
(* Properties of the presets.                                              *)
(***************************************************************************)
\* the dialog after the user activated the item at row index
Activated(index) ==
    presetComboItemActivated(setCurrentIndex(editor, index), <<>>)

\* list with the element at index at (from 0) moved to its front
MovedToFront(list, at) ==
    <<list[at + 1]>> \o SubSeq(list, 1, at) \o SubSeq(list, at + 2, Len(list))

\* C34: activating the item of a custom preset moves that preset, its name
\* and its list, to the front of preset_names and preset_pref_lists and
\* keeps the order of the others; activating a built-in preset or the
\* custom preset at the front leaves both lists as they are
ActivatedPresetMovesToFront ==
    editor.open /\ editor.raised = NoException =>
        \A index \in 0..(Len(editor.items) - 1) :
            \E item \in {editor.items[index + 1]} :
            \E at \in {IndexOf(editor.preset_names, item.text)} :
                /\ item.data = "custom" /\ at > 0 =>
                      /\ Activated(index).preset_names =
                             MovedToFront(editor.preset_names, at)
                      /\ Activated(index).preset_pref_lists =
                             MovedToFront(editor.preset_pref_lists, at)
                /\ item.data = "builtin" \/ (item.data = "custom" /\ at = 0) =>
                      /\ Activated(index).preset_names = editor.preset_names
                      /\ Activated(index).preset_pref_lists =
                             editor.preset_pref_lists

\* C35: new_preset and preset_edited are never both true, and no assertion
\* of setPresetNew, setPresetEdited, resetPresetList or
\* removeAllCustomPresets fails, whatever the user does in the dialog
PresetFlagsExclusiveAndAssertionsHold ==
    editor # NoEditor =>
        /\ ~(editor.new_preset /\ editor.preset_edited)
        /\ editor.raised \notin {"AssertionError in setPresetNew",
                                 "AssertionError in setPresetEdited",
                                 "AssertionError in resetPresetList",
                                 "AssertionError in removeAllCustomPresets"}

\* the entry of an edited preset is shown after all custom presets were
\* removed, and the text changed again since
EditedShownAfterRemoveAll ==
    /\ editor.open
    /\ editor.preset_edited
    /\ editor.preset_names = <<>>
    /\ editor.currentIndex = 0
    /\ editor.user_pref_list = <<Text(<<"a">>)>>

\* an update of the existing preset is on offer: the combo box shows the
\* item 'Update Custom Preset', and the message box of accept has the
\* button of that name
UpdateOffered ==
    /\ editor.open
    /\ editor.raised = NoException
    /\ \/ editor.preset_edited
       \/ \E i \in 1..Len(editor.items) : editor.items[i].data = "update_preset"

\* C36: whenever updateExistingPreset can run, from the combo box item or
\* from the update button of accept, current_custom_name is the name of a
\* custom preset in preset_names
OfferedUpdateNamesExistingPreset ==
    UpdateOffered =>
        /\ editor.current_custom_name # <<>>
        /\ InList(editor.current_custom_name[1], editor.preset_names)

\* C37: preset_names and preset_pref_lists have the same length, the list
\* at each index is the one that was saved under the name at that index,
\* and preset_names holds no empty name and no name twice
PresetListsPaired ==
    editor # NoEditor =>
        /\ Len(editor.preset_names) = Len(editor.preset_pref_lists)
        /\ \A i \in 1..Len(editor.preset_names) :
              /\ editor.preset_names[i] # ""
              /\ editor.preset_names[i] \in PresetNames
              /\ editor.preset_pref_lists[i] =
                     editor.saved[editor.preset_names[i]]
              /\ \A j \in 1..Len(editor.preset_names) :
                    editor.preset_names[i] = editor.preset_names[j] => i = j

\* three presets were saved under new names in a dialog that opened without
\* presets: the last one saved is at the front and each holds its list
ThreePresetsSaved ==
    /\ editor # NoEditor
    /\ editor.open
    /\ editor.preset_names = <<"y", "z", "x">>
    /\ editor.preset_pref_lists = <<<<Tok("session")>>, <<Text(<<"a">>)>>,
                                    builtin_pref_lists[1]>>

\* the classes of the items of the combo box below the entry of a new or
\* edited preset and its separator, and above the update item
PresetRows(d) ==
    [i \in 1..(Len(d.items) - (IF d.new_preset \/ d.preset_edited THEN 2 ELSE 0)
                            - (IF d.preset_edited THEN 1 ELSE 0)) |->
        d.items[i + (IF d.new_preset \/ d.preset_edited THEN 2 ELSE 0)].data]

\* C38: the items of the combo box are the built-in presets, then, iff there
\* is a custom preset, a separator and the custom presets, then a separator
\* and the two action items; preset_separator tells whether the separator
\* between built-in and custom presets is there
PresetItemsLaidOut ==
    editor # NoEditor /\ editor.open /\ editor.raised = NoException =>
        /\ PresetRows(editor) =
               [i \in 1..Len(builtin_pref_names) |-> "builtin"]
               \o (IF editor.preset_names # <<>>
                   THEN <<"separator">>
                        \o [i \in 1..Len(editor.preset_names) |-> "custom"]
                   ELSE <<>>)
               \o <<"separator", "new_preset", "remove_all">>
        /\ {editor.items[i].text : i \in {j \in 1..Len(editor.items) :
                                            editor.items[j].data = "custom"}}
               = {editor.preset_names[i] : i \in 1..Len(editor.preset_names)}
        /\ editor.preset_separator <=> editor.preset_names # <<>>

(***************************************************************************)
(* The editor shows a preference list: displayPrefList writes the text,    *)
(* and the change of the text generates the list of the user from it.      *)
(***************************************************************************)
\* the tokens of the lists shown: a preference value of pref_mapper with no
\* sequence, one with a sequence, a text, and for subfolders the separator
ShownTokens(is_subfolder) ==
    {Text(<<"a">>), Tok("job_code"), Tok("session")}
        \cup (IF is_subfolder THEN {Tok("separator")} ELSE {})

\* PrefDialog.__init__ from editor.displayPrefList(user_pref_list) on;
\* pref_list keeps the list that was given
ShowPrefList(is_subfolder, sample_rpd_file, pref_list) ==
    /\ ~editor.open
    /\ editor' = TextChanged([open |-> TRUE, is_subfolder |-> is_subfolder,
                              sample_rpd_file |-> sample_rpd_file,
                              document |-> <<>>, user_pref_list |-> <<>>,
                              message |-> BlankMessage, name_parts |-> <<>>,
                              example |-> <<>>, pref_list |-> pref_list],
                             displayPrefList(pref_list))
    /\ UNCHANGED <<prefs, photos, sequences, downloads_today, duplicate_files,
                   disk, dirs, crashed, receiver, sink, store, phase, sessions,
                   files_sent, received, last, start, placed, probe>>

NextShown ==
    \E is_subfolder \in BOOLEAN, sample_rpd_file \in SampleFiles :
        \E pref_list \in TokenLists(ShownTokens(is_subfolder)) :
            ShowPrefList(is_subfolder, sample_rpd_file, pref_list)

SpecShown == InitNames /\ [][NextShown]_vars

\* C39: the list generated from the text that displayPrefList wrote for a
\* list of known tokens, texts that are not empty and, for subfolders,
\* separators, is that list
ShownListGeneratedAgain ==
    editor.open => getPrefList(editor) = editor.pref_list

(***************************************************************************)
(* PrefEditor.locatePrefValue on the boundaries of the highlighter: a      *)
(* sorted list of <<start, end>> of preference values that do not overlap. *)
(***************************************************************************)
MaxPosition == 5
MaxBoundaries == 3

\* the boundaries the highlighter can hold
Boundaries ==
    {b \in UNION {[1..n -> {<<s, e>> : s, e \in 0..MaxPosition}] :
                      n \in 0..MaxBoundaries} :
        /\ \A i \in 1..Len(b) : b[i][1] <= b[i][2]
        /\ \A i \in 1..(Len(b) - 1) : b[i][2] < b[i + 1][1]}

\* bisect_right: the boundaries that do not come after <<position, 0>>
bisect_right(b, position) ==
    Cardinality({i \in 1..Len(b) : b[i][1] <= position})

\* SortedList.bisect_left((position, 0)): the number of boundaries that
\* come before <<position, 0>> in the order of tuples
bisect_left(b, position) ==
    Cardinality({i \in 1..Len(b) :
                    \/ b[i][1] < position
                    \/ b[i][1] = position /\ b[i][2] < 0})

Located(pref_position, at, left) ==
    [pref_position |-> pref_position, start |-> at[1], end |-> at[2],
     left_start |-> left[1], left_end |-> left[2]]

\* PrefEditor.locatePrefValue
locatePrefValue(b, position) ==
    LET index == bisect_left(b, position)
        nowhere == <<-1, -1>>
    IN  IF b = <<>> THEN Located("not_here", nowhere, nowhere)
        ELSE IF index = 0
             THEN IF b[1][1] = position THEN Located("at", b[1], nowhere)
                  ELSE Located("not_here", nowhere, nowhere)
        ELSE IF index = Len(b)
             THEN IF position <= b[Len(b)][2]
                  THEN Located("positioned_in", b[Len(b)], nowhere)
                  ELSE IF b[Len(b)][2] = position - 1
                       THEN Located("on_left", nowhere, b[Len(b)])
                  ELSE Located("not_here", nowhere, nowhere)
        ELSE IF b[index + 1][1] = position /\ b[index][2] = position - 1
             THEN Located("on_left_and_at", b[index + 1], b[index])
        ELSE IF b[index + 1][1] = position
             THEN Located("at", b[index + 1], nowhere)
        ELSE IF b[index][2] = position - 1
             THEN Located("on_left", nowhere, b[index])
        ELSE IF position <= b[index][2]
             THEN Located("positioned_in", b[index], nowhere)
        ELSE Located("not_here", nowhere, nowhere)

\* the highlighter found the boundaries b, and the cursor is at position
Locate(b, position) ==
    /\ ~editor.open
    /\ editor' = [open |-> TRUE, boundaries |-> b, position |-> position,
                  located |-> locatePrefValue(b, position)]
    /\ UNCHANGED <<prefs, photos, sequences, downloads_today, duplicate_files,
                   disk, dirs, crashed, receiver, sink, store, phase, sessions,
                   files_sent, received, last, start, placed, probe>>

NextLocate ==
    \E b \in Boundaries, position \in 0..(MaxPosition + 2) : Locate(b, position)

SpecLocate == InitNames /\ [][NextLocate]_vars

====
